---- MODULE Spec2Model ----
(***************************************************************************)
(* EventLoopRunner of goja-runner: host threads hand closures to the       *)
(* cooperative loop of github.com/dop251/goja_nodejs/eventloop, whose      *)
(* single worker is the only goroutine that touches the goja engine.       *)
(* The wrapper, type EventLoopRunner, is translated from the package       *)
(* source;                                                                 *)
(* the loop behind it is an imported package and is modelled at the        *)
(* interface the wrapper uses (an auxiliary FIFO queue of closures, a      *)
(* channel of due timer jobs, a wake-up token, one worker).                *)
(***************************************************************************)
EXTENDS Naturals, Sequences, FiniteSets, TLC

\* ---------------------------------------------------------------- bounds
MaxClosures == 2
MaxStarts == 1
\* the timers of a specification that follows single handles
MaxTimers == 1
MaxOps == 3
MaxIncrements == 2

\* ---------------------------------------------------------------- universe
Threads == {"h1", "h2"}
NoThread == "none"
\* the goroutine loop.Start spawns
Bg == "bg"
\* the goroutine RunAsyncWithTimeout spawns for its caller
GoOf == [t \in Threads |-> IF t = "h1" THEN "g1" ELSE "g2"]

\* the delays and periods of timers, in ticks of the clock
Delays == {1, 2}

GlobalNames == {"x"}
HostValues == {"v1", "v2"}
Unset == "unset"
ScriptValue == "script"

\* JavaScript values a source can evaluate to, or a promise can settle with.
Undefined == "undefined"
Null == "null"
PromiseVal == "promise"
Falsy == {"undefined", "null", "false", "0"}

\* goja Value.ToBoolean: the language's truthiness.
ToBoolean(v) == v \notin Falsy

\* goja Value.Export: undefined and null become a nil interface, an object a
\* map, the other primitives their Go counterpart.
Export(v) ==
  CASE v \in {Undefined, Null} -> "nil"
    [] v = "obj" -> "map"
    [] OTHER -> v

NoErr == [kind |-> "none", reason |-> "nil"]
EvalErr(k) == [kind |-> k, reason |-> "nil"]
\* fmt.Errorf("promise rejected: %v", errorVal.Export())
RejectionErr(e) == [kind |-> "rejected", reason |-> Export(e)]

\* The sources handed to AwaitPromise.  kind: "syntax" (does not parse),
\* "throws" (throws while evaluated), "value" (evaluates to the primitive v),
\* "promise" (evaluates to a promise that settles with v: at once, from a
\* script timer, or never).
Src(k, s, o, v) == [kind |-> k, settle |-> s, outcome |-> o, v |-> v]
PlainSources ==
  {Src("syntax", "na", "na", Undefined), Src("throws", "na", "na", "boom")}
  \cup {Src("value", "na", "na", v) : v \in {"42", "0", "null", "obj"}}
PromiseSources ==
  {Src("promise", s, "fulfil", v) : s \in {"now", "timer"}, v \in {"42", "undefined"}}
  \cup {Src("promise", s, "reject", v) :
          s \in {"now", "timer"}, v \in {"boom", "obj", "null", "undefined"}}
  \cup {Src("promise", "never", "na", Undefined)}
AwaitSources == PlainSources \cup PromiseSources
CoreSources ==
  {Src("value", "na", "na", "42"), Src("promise", "timer", "fulfil", "42")}

VARIABLES
  running,      \* loop.running
  canRun,       \* loop.canRun
  wakeupChan,   \* a token is in loop.wakeupChan
  auxJobs,      \* loop.auxJobs: closures handed over through addAuxJob
  batch,        \* the jobs runAux took and has not run yet
  firstPass,    \* the worker is in run()'s first runAux, before its select loop
  wpc,          \* where the loop worker is
  cur,          \* the job the worker is executing
  owner,        \* the goroutine that runs the loop
  jsTimers,     \* awaits whose script timer is pending
  goTimers,     \* closures of SetTimeout and SetInterval whose timer is armed
  engineUsers,  \* goroutines inside the goja runtime right now
  globals,      \* EventLoopRunner.globals
  vmGlobals,    \* the engine's bindings of the registry's names
  pc,           \* where each host thread is
  gpc,          \* where the goroutine of each thread's RunAsyncWithTimeout is
  aw,           \* the state of each host thread's AwaitPromise call
  ret,          \* what each host thread's AwaitPromise returned
  entry,        \* entry[c]: the operation closure c was handed to
  order,        \* closures in the order of their first execution
  runs,         \* runs[c]: how often closure c began to execute
  finished,     \* closures that finished an execution
  preStart,     \* the closures handed to RunOnLoop while the loop was not running
  cleared,      \* handles ClearTimeout or ClearInterval was called on
  atBegin,      \* how the closures so far found the engine when they began
  nStarts,      \* calls of Start so far
  delay,        \* delay[c]: the delay or period closure c was scheduled with
  left,         \* left[c]: the duration the loop's timer of c has left to run
  age,          \* age[c]: the time since c was handed over, counted up to delay[c]
  jobChan,      \* loop.jobChan: the timers whose goroutine waits to send their job
  stopped,      \* handles a cancellation took effect on
  lateRuns,     \* closures that began after a cancellation took effect on them
  before,       \* <<a, b>>: timer a was set to expire earlier than timer b
  tied,         \* {a, b}: timers a and b were set to expire at the same time
  recleared,    \* handles ClearTimeout or ClearInterval was called on again
  halt,         \* what was pending when the loop was told to stop and when Stop returned
  call,         \* the Run, RunAsync or RunAsyncWithTimeout call of each host thread
  mu,           \* EventLoopRunner.mu: the goroutines that hold it to write and to read
  rn            \* the Runners: their engines and registries, and their last call

vars == <<running, canRun, wakeupChan, auxJobs, batch, firstPass, wpc, cur, owner,
          jsTimers, goTimers, engineUsers, globals, vmGlobals, pc, gpc, aw, ret,
          entry, order, runs, finished, preStart, cleared, atBegin, nStarts,
          delay, left, age, jobChan, stopped, lateRuns, before, tied, recleared,
          halt, call, mu, rn>>

queueVars == <<auxJobs, wakeupChan>>
workerVars == <<batch, firstPass, wpc, cur, owner>>
stateVars == <<running, canRun>>
timerVars == <<jsTimers, goTimers>>
vmVars == <<engineUsers, vmGlobals>>
histVars == <<entry, order, runs, finished, preStart, cleared, atBegin, nStarts>>
clockVars == <<delay, left, age, jobChan>>
timerHist == <<stopped, lateRuns, before, tied, recleared>>

\* The sources handed to RunAsync and RunAsyncWithTimeout.  kind as above;
\* timers: the script timers of the source, each set by the callback of the one
\* before, the first by the source itself.
Chains == {0, 1, 2}
RunSrc(k, v, n) == [kind |-> k, v |-> v, timers |-> n]
\* the Go closure handed to Run
GoClosure == RunSrc("closure", Undefined, 0)
RunSources ==
  {RunSrc("syntax", Undefined, 0)}
  \cup {RunSrc("throws", "boom", n) : n \in {0, 1}}
  \cup {RunSrc("value", v, n) : v \in {"42", "undefined"}, n \in Chains}

\* Nothing was told to stop yet.  how: the operation that told the loop to stop;
\* n, pending, runs: the closures handed over, the closures waiting and the
\* executions when it was called; returned, left, runsRet: Stop has returned,
\* and the closures waiting and the executions when it did.
NoHalt ==
  [how |-> "none", n |-> 0, pending |-> {}, runs |-> <<>>,
   returned |-> FALSE, left |-> {}, runsRet |-> <<>>]

\* No call yet.  c: the wrapping closure; result, runErr: the variables the
\* closure captures; evaluated: the closure has written them; toSet, fired: the
\* script timers not yet set and the callbacks run; out, value, err, returns:
\* what RunAsyncWithTimeout returned, and how often; begunThen, firedThen: the
\* executions of the closure and the callbacks run when it returned on its
\* timeout path.
NoCall ==
  [how |-> "none", c |-> 0, src |-> GoClosure, result |-> "nil", runErr |-> "none",
   evaluated |-> FALSE, toSet |-> 0, fired |-> 0,
   out |-> "none", value |-> "nil", err |-> "none", returns |-> 0,
   begunThen |-> 0, firedThen |-> 0]

\* sync.RWMutex, not held
Unlocked == [w |-> {}, r |-> {}]

\* ------------------------------------------------ the values of a Runner

Runners == {"r1", "r2"}
\* the names of the engine's global scope that the scripts use
JsNames == {"x", "f", "g", "state"}

\* A Go value and a JavaScript value: a type and a sequence of integers.  A
\* string is its bytes; an integer is <<hi, lo>>, which stands for
\* hi * 2^27 + lo; a float is <<hi, lo, h>>, hundredths h added; a boolean is
\* <<0>> or <<1>>; a slice is its elements; a map with one entry is <<key byte,
\* value>>; a pointer is <<address>>; a function is <<what it does>>.
Val(t, v) == [t |-> t, v |-> v]
NotDeclared == Val("none", <<>>)
JsUndefined == Val("undefined", <<>>)
\* 2^53, the largest magnitude up to which every integer is a float64
MaxSafe == <<67108864, 0>>

\* float64(i) of an integer below 2^54: above 2^53 the even neighbour, of two
\* neighbours the one with the even mantissa
Float64Of(i) ==
  IF i[1] < MaxSafe[1] \/ i = MaxSafe \/ i[2] % 2 = 0 THEN i
  ELSE IF ((i[2] - 1) \div 2) % 2 = 0 THEN <<i[1], i[2] - 1>> ELSE <<i[1], i[2] + 1>>

\* goja Runtime.ToValue, as vm.Set applies it: a Go integer becomes a number,
\* an integer beyond 2^53 the float64 next to it (goja intToValue).
ToValue(g) ==
  CASE g.t = "string" -> Val("string", g.v)
    [] g.t = "int" -> Val("number", Float64Of(g.v) \o <<0>>)
    [] g.t = "float" -> Val("number", g.v)
    [] g.t = "bool" -> Val("boolean", g.v)
    [] g.t = "slice" -> Val("array", g.v)
    [] g.t = "map" -> Val("object", g.v)
    [] g.t = "pointer" -> Val("goobject", g.v)
    [] OTHER -> Val("function", g.v)

\* ExportString, ExportInt, ExportFloat, ExportBool of a value of the matching
\* JavaScript type: val.String(), val.ToInteger(), val.ToFloat(), val.ToBoolean().
ExportString(val) == val.v
ExportInt(val) == <<val.v[1], val.v[2]>>
ExportFloat(val) == val.v
ExportBool(val) == val.v

\* the export function that matches the type of a Go primitive
ExportAs(t, val) ==
  CASE t = "string" -> ExportString(val)
    [] t = "int" -> ExportInt(val)
    [] t = "float" -> ExportFloat(val)
    [] OTHER -> ExportBool(val)

JsTypeOf == [string |-> "string", int |-> "number", float |-> "number",
             bool |-> "boolean", slice |-> "array", map |-> "object"]

\* the addresses of Go objects, and the counter of each object
Addresses == {1, 2}
NoCounts == [a \in Addresses |-> 0]

FreshVm == [n \in JsNames |-> NotDeclared]
NoRegistry == [n \in JsNames |-> NotDeclared]

\* the last call on a Runner: what was called with what, the error and the
\* value it returned, and the engine and the registry before it
NoLast ==
  [op |-> "none", r |-> "r1", name |-> "x", given |-> <<>>, malformed |-> FALSE,
   err |-> "none", cause |-> "none", val |-> NotDeclared, calls |-> <<>>,
   vmBefore |-> FreshVm, regBefore |-> NoRegistry, heapBefore |-> NoCounts]

\* the counter that Runners share on the host side: its mutex, its value, and
\* for the thread of each Runner where it is in increment, the value it has
\* read, and the increments it has made
NoHost ==
  [mu |-> {}, value |-> 0, tmp |-> [r \in Runners |-> 0],
   at |-> [r \in Runners |-> "idle"], did |-> [r \in Runners |-> 0]]

\* the load callbacks of the bundler that can run at once, and the URLs
Loaders == {"l1", "l2"}
Urls == {"u1", "u2"}
\* The remoteResolver of one BuildReactBundles.  cache: r.cache, the empty
\* text for a URL it does not hold; gets: the
\* requests sent for each URL; at, path: where each load callback is and the
\* URL it was called for; out: what it returned last; failed: a callback has
\* returned an error, which ends the build; n: the callbacks begun.
NoResolver ==
  [cache |-> [u \in Urls |-> <<>>],
   gets |-> [u \in Urls |-> 0],
   at |-> [k \in Loaders |-> "idle"],
   path |-> [k \in Loaders |-> "none"],
   out |-> [k \in Loaders |-> [path |-> "none", text |-> <<>>, cached |-> FALSE]],
   failed |-> FALSE,
   n |-> 0]

\* A ReactApp whose Render nobody has called.  mu: the threads that hold
\* ra.mu; serverProps: the global SERVER_PROPS of the app's Runner; at, props,
\* markup: where each thread is inside Render, the props it was given and what
\* Eval handed it; out: what its last Render returned, and for which props;
\* n: the calls of Render made.
NoApp ==
  [mu |-> {}, serverProps |-> "none",
   at |-> [t \in Threads |-> "idle"],
   props |-> [t \in Threads |-> "none"],
   markup |-> [t \in Threads |-> <<>>],
   out |-> [t \in Threads |-> [props |-> "none", html |-> <<>>]],
   n |-> 0]

\* No Runner is made.  vm: the engine's global scope of each; reg: Runner.globals
\* of each; heap: the counters of the Go objects that globals point to;
\* failed: the Runners that were given a malformed source; host: the counter
\* behind the functions in the globals.
NoRunners ==
  [made |-> {}, vm |-> [r \in Runners |-> FreshVm],
   reg |-> [r \in Runners |-> NoRegistry], heap |-> NoCounts, ops |-> 0, failed |-> {},
   host |-> NoHost, app |-> NoApp, resolver |-> NoResolver, last |-> NoLast]

\* a count of 0, 1 or "more than once"
CountUp(n) == IF n < 2 THEN n + 1 ELSE n

Job(k, c, t) == [kind |-> k, c |-> c, t |-> t]
NoJob == Job("none", 0, NoThread)

\* var __result = { value: undefined, error: undefined, done: false }
FreshResult == [value |-> Undefined, error |-> Undefined, done |-> "false"]

\* One AwaitPromise call: its source, the locals resolvedValue, promiseErr and
\* done of the call, the script object __result, and what the call did so far.
NoAwait ==
  [src |-> Src("none", "na", "na", Undefined), calledRunning |-> FALSE,
   by |-> {}, obj |-> FreshResult, settled |-> "none",
   resolvedValue |-> "nil", promiseErr |-> NoErr, written |-> FALSE,
   doneClosed |-> FALSE, closes |-> 0, checked |-> FALSE, rechecked |-> FALSE,
   timers |-> 0]

NoRet ==
  [returned |-> FALSE, src |-> Src("none", "na", "na", Undefined),
   calledRunning |-> FALSE, by |-> {}, value |-> "nil", err |-> NoErr,
   settled |-> "none", written |-> FALSE, checked |-> FALSE,
   rechecked |-> FALSE, timers |-> 0]

Init ==
  /\ running = FALSE
  /\ canRun = FALSE
  /\ wakeupChan = FALSE
  /\ auxJobs = <<>>
  /\ batch = <<>>
  /\ firstPass = FALSE
  /\ wpc = "off"
  /\ cur = NoJob
  /\ owner = NoThread
  /\ jsTimers = {}
  /\ goTimers = {}
  /\ engineUsers = {}
  /\ globals = [n \in GlobalNames |-> Unset]
  /\ vmGlobals = [n \in GlobalNames |-> Unset]
  /\ pc = [t \in Threads |-> "idle"]
  /\ gpc = [t \in Threads |-> [st |-> "none", c |-> 0]]
  /\ aw = [t \in Threads |-> NoAwait]
  /\ ret = [t \in Threads |-> NoRet]
  /\ entry = <<>>
  /\ order = <<>>
  /\ runs = <<>>
  /\ finished = {}
  /\ preStart = {}
  /\ cleared = {}
  /\ atBegin = [bound |-> TRUE, overScript |-> FALSE]
  /\ nStarts = 0
  /\ delay = <<>>
  /\ left = <<>>
  /\ age = <<>>
  /\ jobChan = <<>>
  /\ stopped = {}
  /\ lateRuns = {}
  /\ before = {}
  /\ tied = {}
  /\ recleared = {}
  /\ halt = NoHalt
  /\ call = [t \in Threads |-> NoCall]
  /\ mu = Unlocked
  /\ rn = NoRunners

\* loop.jobCount of a loop that runs in the foreground: the armed timers.
JobCount == Cardinality(jsTimers) + Cardinality(goTimers)

\* the next closure, handed to operation how with delay d
NewClosureAfter(c, how, d) ==
  /\ c = Len(entry) + 1
  /\ c <= MaxClosures
  /\ entry' = Append(entry, how)
  /\ runs' = Append(runs, 0)
  /\ delay' = Append(delay, d)
  /\ left' = Append(left, d)
  /\ age' = Append(age, 0)

\* the next closure, handed to an operation that takes no delay
NewClosure(c, how) == NewClosureAfter(c, how, 0)

\* ------------------------------------------------------------ the wrapper

\* a binding step that binds only the names the engine does not hold yet
setupVMOnce(vm, reg) ==
  [n \in GlobalNames |-> IF vm[n] = Unset THEN reg[n] ELSE vm[n]]

\* EventLoopRunner.setupVM: under the read lock, vm.Set(name, value) for every
\* entry of the registry; names the registry does not hold are left alone.
setupVM(vm, reg) ==
  [n \in GlobalNames |-> IF reg[n] # Unset THEN reg[n] ELSE vm[n]]

\* every name of the registry is bound in the engine to its registered value
Bound(vm, reg) == \A n \in GlobalNames : reg[n] # Unset => vm[n] = reg[n]

\* what is known of the closures that began: all of them found the registry
\* bound, one of them found the binding step replace a value a script assigned
Began(vm, vmAfter, reg) ==
  [bound |-> atBegin.bound /\ Bound(vmAfter, reg),
   overScript |-> atBegin.overScript
                  \/ \E n \in GlobalNames : vm[n] = ScriptValue /\ vmAfter[n] # ScriptValue]

\* EventLoopRunner.SetGlobal: under the write lock, globals[name] = value.
SetGlobal(t, n, v) ==
  /\ pc[t] = "idle"
  /\ globals[n] # v
  /\ globals' = [globals EXCEPT ![n] = v]
  /\ UNCHANGED <<mu, rn, halt, call, clockVars, timerHist, stateVars, queueVars, workerVars, timerVars,
                 vmVars, histVars,
                 pc, gpc, aw, ret>>

\* a SetGlobal that goes on without the lock
SetGlobalNoLock(t) ==
  /\ pc[t] = "idle"
  /\ pc' = [pc EXCEPT ![t] = "locked"]
  /\ UNCHANGED <<mu, rn, halt, call, clockVars, timerHist, stateVars, queueVars, workerVars,
                 timerVars, vmVars, globals, histVars, gpc, aw, ret>>

\* EventLoopRunner.SetGlobal, r.mu.Lock(): the caller goes on when no goroutine
\* holds the lock, to write or to read.
SetGlobalLock(t) ==
  /\ pc[t] = "idle"
  /\ mu = Unlocked
  /\ mu' = [mu EXCEPT !.w = {t}]
  /\ pc' = [pc EXCEPT ![t] = "locked"]
  /\ UNCHANGED <<rn, halt, call, clockVars, timerHist, stateVars, queueVars, workerVars,
                 timerVars, vmVars, globals, histVars, gpc, aw, ret>>

\* EventLoopRunner.SetGlobal, r.globals[name] = value
SetGlobalWrite(t, n, v) ==
  /\ pc[t] = "locked"
  /\ globals' = [globals EXCEPT ![n] = v]
  /\ pc' = [pc EXCEPT ![t] = "written"]
  /\ UNCHANGED <<mu, rn, halt, call, clockVars, timerHist, stateVars, queueVars, workerVars,
                 timerVars, vmVars, histVars, gpc, aw, ret>>

\* EventLoopRunner.SetGlobal, the deferred r.mu.Unlock()
SetGlobalUnlock(t) ==
  /\ pc[t] = "written"
  /\ mu' = [mu EXCEPT !.w = @ \ {t}]
  /\ pc' = [pc EXCEPT ![t] = "idle"]
  /\ UNCHANGED <<rn, halt, call, clockVars, timerHist, stateVars, queueVars, workerVars,
                 timerVars, vmVars, globals, histVars, gpc, aw, ret>>

\* loop.setRunning, of Start and of Run
setRunning ==
  /\ ~running
  /\ running' = TRUE
  /\ canRun' = TRUE

\* EventLoopRunner.Start: loop.Start() marks the loop running and spawns the
\* worker, which begins in run()'s first runAux.
Start(t) ==
  /\ pc[t] = "idle"
  /\ setRunning
  /\ nStarts < MaxStarts
  /\ nStarts' = nStarts + 1
  /\ owner' = Bg
  /\ wpc' = "runAux"
  /\ firstPass' = TRUE
  /\ UNCHANGED <<mu, rn, halt, call, clockVars, timerHist, queueVars, batch, cur, timerVars, vmVars, globals,
                 pc, gpc, aw, ret,
                 entry, order, runs, finished, preStart, cleared, atBegin>>

\* the closures of kind k that wait in the loop's queue
QueuedOf(k) ==
  {auxJobs[i].c : i \in {j \in 1..Len(auxJobs) : auxJobs[j].kind = k}}
  \cup {batch[i].c : i \in {j \in 1..Len(batch) : batch[j].kind = k}}

\* the armed timers that have expired: their job waits on loop.jobChan
Due == {c \in goTimers : \E i \in 1..Len(jobChan) : jobChan[i] = c}

\* the closures that wait to be executed: queued by RunOnLoop, or of a timer that
\* is armed or about to be
Pending == QueuedOf("user") \cup QueuedOf("arm") \cup goTimers

\* EventLoopRunner.Stop: loop.Stop() clears canRun, wakes the worker and waits
\* until the worker has left run().
Stop(t) ==
  /\ pc[t] = "idle"
  /\ running
  /\ halt.how = "none"
  /\ canRun' = FALSE
  /\ wakeupChan' = TRUE
  /\ pc' = [pc EXCEPT ![t] = "stopWait"]
  /\ halt' = [halt EXCEPT !.how = "Stop", !.n = Len(entry),
                          !.pending = QueuedOf("user") \cup Due,
                          !.runs = runs]
  /\ UNCHANGED <<mu, rn, call, clockVars, timerHist, running, auxJobs, workerVars, timerVars, vmVars,
                 globals, histVars,
                 gpc, aw, ret>>

\* a Stop that returns without waiting for the worker
StopReturnEarly(t) ==
  /\ pc[t] = "stopWait"
  /\ pc' = [pc EXCEPT ![t] = "idle"]
  /\ halt' = [halt EXCEPT !.returned = TRUE, !.left = QueuedOf("user") \cup Due,
                          !.runsRet = runs]
  /\ UNCHANGED <<mu, rn, call, clockVars, timerHist, stateVars, queueVars, workerVars, timerVars,
                 vmVars, globals, histVars, gpc, aw, ret>>

\* EventLoopRunner.Stop returns: the worker has left run() and cleared running.
StopReturn(t) ==
  /\ pc[t] = "stopWait"
  /\ ~running
  /\ pc' = [pc EXCEPT ![t] = "idle"]
  /\ halt' = [halt EXCEPT !.returned = TRUE, !.left = QueuedOf("user") \cup Due,
                          !.runsRet = runs]
  /\ UNCHANGED <<mu, rn, call, clockVars, timerHist, stateVars, queueVars, workerVars, timerVars, vmVars, globals,
                 histVars, gpc, aw, ret>>

\* EventLoopRunner.StopNoWait: loop.StopNoWait() clears canRun, wakes the worker
\* and returns.
StopNoWait(t) ==
  /\ pc[t] = "idle"
  /\ running
  /\ canRun
  /\ canRun' = FALSE
  /\ wakeupChan' = TRUE
  /\ halt' = [halt EXCEPT !.how = "StopNoWait", !.n = Len(entry), !.pending = Pending,
                          !.runs = runs]
  /\ UNCHANGED <<mu, rn, call, clockVars, timerHist, running, auxJobs, workerVars, timerVars, vmVars,
                 globals, histVars,
                 pc, gpc, aw, ret>>

\* a RunOnLoop that calls the wrapping closure on the thread of its caller
RunOnLoopDirect(t, c) ==
  /\ pc[t] = "idle"
  /\ c = Len(entry) + 1
  /\ c <= MaxClosures
  /\ entry' = Append(entry, "loop")
  /\ runs' = Append(runs, 1)
  /\ delay' = Append(delay, 0)
  /\ left' = Append(left, 0)
  /\ age' = Append(age, 0)
  /\ vmGlobals' = setupVM(vmGlobals, globals)
  /\ engineUsers' = engineUsers \cup {t}
  /\ order' = Append(order, c)
  /\ UNCHANGED <<mu, rn, halt, call, jobChan, timerHist, stateVars, queueVars, workerVars, timerVars,
                 globals, pc, gpc, aw, ret,
                 finished, preStart, cleared, atBegin, nStarts>>

\* a RunOnLoop that puts the closure at the head of the queue
RunOnLoopFront(t, c) ==
  /\ pc[t] = "idle"
  /\ NewClosure(c, "loop")
  /\ auxJobs' = <<Job("user", c, NoThread)>> \o auxJobs
  /\ wakeupChan' = TRUE
  /\ preStart' = IF running THEN preStart ELSE preStart \cup {c}
  /\ UNCHANGED <<mu, rn, halt, call, jobChan, timerHist, stateVars, workerVars, timerVars, vmVars, globals,
                 pc, gpc, aw, ret,
                 order, finished, cleared, atBegin, nStarts>>

\* a RunOnLoop that keeps the closure only when the loop is running
RunOnLoopIfRunning(t, c) ==
  /\ pc[t] = "idle"
  /\ NewClosure(c, "loop")
  /\ auxJobs' = IF running THEN Append(auxJobs, Job("user", c, NoThread)) ELSE auxJobs
  /\ wakeupChan' = (wakeupChan \/ running)
  /\ preStart' = IF running THEN preStart ELSE preStart \cup {c}
  /\ UNCHANGED <<mu, rn, halt, call, jobChan, timerHist, stateVars, workerVars, timerVars, vmVars, globals,
                 pc, gpc, aw, ret,
                 order, finished, cleared, atBegin, nStarts>>

\* EventLoopRunner.RunOnLoop: loop.RunOnLoop appends the wrapping closure
\* (setupVM; fn) to the auxiliary queue under the queue's lock and wakes the worker.
RunOnLoop(t, c) ==
  /\ pc[t] = "idle"
  /\ NewClosure(c, "loop")
  /\ auxJobs' = Append(auxJobs, Job("user", c, NoThread))
  /\ wakeupChan' = TRUE
  /\ preStart' = IF running THEN preStart ELSE preStart \cup {c}
  /\ UNCHANGED <<mu, rn, halt, call, jobChan, timerHist, stateVars, workerVars, timerVars, vmVars, globals,
                 pc, gpc, aw, ret,
                 order, finished, cleared, atBegin, nStarts>>

\* a SetTimeout / SetInterval that hands no delay on to the loop
SetTimerAtOnce(t, c, how, d) ==
  /\ pc[t] = "idle"
  /\ c = Len(entry) + 1
  /\ c <= MaxClosures
  /\ entry' = Append(entry, how)
  /\ runs' = Append(runs, 0)
  /\ delay' = Append(delay, d)
  /\ left' = Append(left, 0)
  /\ age' = Append(age, 0)
  /\ auxJobs' = Append(auxJobs, Job("arm", c, NoThread))
  /\ wakeupChan' = TRUE
  /\ UNCHANGED <<mu, rn, halt, call, jobChan, timerHist, stateVars, workerVars, timerVars, vmVars, globals,
                 pc, gpc, aw, ret, order, finished, preStart, cleared, atBegin, nStarts>>

\* EventLoopRunner.SetTimeout / SetInterval: loop.SetTimeout and loop.SetInterval
\* hand the arming of the timer to the loop and return the handle.
SetTimerAfter(t, c, how, d) ==
  /\ pc[t] = "idle"
  /\ NewClosureAfter(c, how, d)
  /\ auxJobs' = Append(auxJobs, Job("arm", c, NoThread))
  /\ wakeupChan' = TRUE
  /\ UNCHANGED <<mu, rn, halt, call, jobChan, timerHist, stateVars, workerVars, timerVars, vmVars, globals,
                 pc, gpc, aw, ret,
                 order, finished, preStart, cleared, atBegin, nStarts>>

\* a timer of the shortest delay
SetTimer(t, c, how) == SetTimerAfter(t, c, how, 1)

SetTimeout(t, c) == SetTimer(t, c, "timeout")

SetInterval(t, c) == SetTimer(t, c, "interval")

\* SetTimeout(fn, delay) and SetInterval(fn, interval) with the delay d
SetTimeoutAfter(t, c, d) == SetTimerAfter(t, c, "timeout", d)

SetIntervalAfter(t, c, d) == SetTimerAfter(t, c, "interval", d)

\* a ClearTimeout / ClearInterval that hands nothing to the loop
ClearTimerNoop(t, c, how) ==
  /\ pc[t] = "idle"
  /\ c \in 1..Len(entry)
  /\ entry[c] = how
  /\ c \notin cleared
  /\ cleared' = cleared \cup {c}
  /\ UNCHANGED <<mu, rn, halt, call, clockVars, timerHist, stateVars, queueVars, workerVars, timerVars,
                 vmVars, globals, pc, gpc, aw, ret, entry, order, runs, finished,
                 preStart, atBegin, nStarts>>

\* EventLoopRunner.ClearTimeout / ClearInterval: loop.ClearTimeout and
\* loop.ClearInterval hand the cancellation to the loop.
ClearTimer(t, c, how) ==
  /\ pc[t] = "idle"
  /\ c \in 1..Len(entry)
  /\ entry[c] = how
  /\ c \notin cleared
  /\ cleared' = cleared \cup {c}
  /\ auxJobs' = Append(auxJobs, Job("clear", c, NoThread))
  /\ wakeupChan' = TRUE
  /\ UNCHANGED <<mu, rn, halt, call, clockVars, timerHist, stateVars, workerVars, timerVars, vmVars, globals,
                 pc, gpc, aw, ret,
                 entry, order, runs, finished, preStart, atBegin, nStarts>>

\* ClearTimeout / ClearInterval on a handle it was called on before
ClearTimerAgain(t, c) ==
  /\ pc[t] = "idle"
  /\ c \in cleared
  /\ c \notin recleared
  /\ recleared' = recleared \cup {c}
  /\ auxJobs' = Append(auxJobs, Job("clear", c, NoThread))
  /\ wakeupChan' = TRUE
  /\ UNCHANGED <<mu, rn, halt, call, clockVars, stopped, lateRuns, before, tied, stateVars, workerVars,
                 timerVars, vmVars, globals, pc, gpc, aw, ret, histVars>>

ClearTimeout(t, c) == ClearTimer(t, c, "timeout")

ClearInterval(t, c) == ClearTimer(t, c, "interval")

\* The closure every entry point wraps around fn: r.setupVM(vm), then fn(vm) is
\* inside the engine, on goroutine g.
ClosureBegin(c, g) ==
  /\ vmGlobals' = setupVM(vmGlobals, globals)
  /\ engineUsers' = engineUsers \cup {g}
  /\ runs' = [runs EXCEPT ![c] = CountUp(@)]
  /\ order' = IF runs[c] = 0 THEN Append(order, c) ELSE order
  /\ lateRuns' = IF c \in stopped THEN lateRuns \cup {c} ELSE lateRuns
  /\ atBegin' = Began(vmGlobals, vmGlobals', globals)

\* a call that runs its closure in an engine of its own
RunOnOfFresh(t, c, how, src) ==
  /\ pc[t] = "idle"
  /\ call' = [call EXCEPT ![t] = [NoCall EXCEPT !.how = how, !.c = c, !.src = src]]
  /\ setRunning
  /\ c = Len(entry) + 1
  /\ c <= MaxClosures
  /\ entry' = Append(entry, how)
  /\ delay' = Append(delay, 0)
  /\ left' = Append(left, 0)
  /\ age' = Append(age, 0)
  /\ vmGlobals' = setupVM([n \in GlobalNames |-> Unset], globals)
  /\ engineUsers' = engineUsers \cup {t}
  /\ runs' = Append(runs, 1)
  /\ order' = Append(order, c)
  /\ atBegin' = Began(vmGlobals, vmGlobals', globals)
  /\ owner' = t
  /\ cur' = Job("run", c, NoThread)
  /\ wpc' = "user"
  /\ pc' = [pc EXCEPT ![t] = "run"]
  /\ UNCHANGED <<mu, rn, halt, jobChan, timerHist, queueVars, batch, firstPass, timerVars, globals,
                 gpc, aw, ret, finished, preStart, cleared, nStarts>>

\* EventLoopRunner.Run / RunAsync: loop.Run marks the loop running, calls the
\* wrapping closure on the calling thread and then runs the loop on it until no
\* timer is pending.
RunOnOf(t, c, how, src) ==
  /\ pc[t] = "idle"
  /\ call' = [call EXCEPT ![t] = [NoCall EXCEPT !.how = how, !.c = c, !.src = src]]
  /\ setRunning
  /\ c = Len(entry) + 1
  /\ c <= MaxClosures
  /\ entry' = Append(entry, how)
  /\ delay' = Append(delay, 0)
  /\ left' = Append(left, 0)
  /\ age' = Append(age, 0)
  /\ vmGlobals' = setupVM(vmGlobals, globals)
  /\ engineUsers' = engineUsers \cup {t}
  /\ runs' = Append(runs, 1)
  /\ order' = Append(order, c)
  /\ atBegin' = Began(vmGlobals, vmGlobals', globals)
  /\ owner' = t
  /\ cur' = Job("run", c, NoThread)
  /\ wpc' = "user"
  /\ pc' = [pc EXCEPT ![t] = "run"]
  /\ UNCHANGED <<mu, rn, halt, jobChan, timerHist, queueVars, batch, firstPass, timerVars, globals,
                 gpc, aw, ret, finished, preStart, cleared, nStarts>>

\* a call whose closure is Go code
RunOn(t, c, how) == RunOnOf(t, c, how, GoClosure)

\* a Run that queues the closure and returns
RunDetached(t, c) ==
  /\ pc[t] = "idle"
  /\ call' = [call EXCEPT ![t] = [NoCall EXCEPT !.how = "run", !.c = c]]
  /\ NewClosure(c, "run")
  /\ auxJobs' = Append(auxJobs, Job("user", c, NoThread))
  /\ wakeupChan' = TRUE
  /\ UNCHANGED <<mu, rn, halt, jobChan, timerHist, stateVars, workerVars, timerVars, vmVars,
                 globals, pc, gpc, aw, ret, order, finished, preStart, cleared, atBegin,
                 nStarts>>

Run(t, c) == RunOn(t, c, "run")

RunAsync(t, c) == RunOn(t, c, "runAsync")

\* EventLoopRunner.RunAsync(code): the wrapping closure evaluates the source.
RunAsyncOf(t, c, src) == RunOnOf(t, c, "runAsync", src)

\* EventLoopRunner.RunAsyncWithTimeout, the calling thread up to its select: the
\* goroutine that will call loop.Run is spawned.
RunAsyncWithTimeoutOf(t, c, src) ==
  /\ pc[t] = "idle"
  /\ gpc[t].st = "none"
  /\ NewClosure(c, "rawt")
  /\ call' = [call EXCEPT ![t] = [NoCall EXCEPT !.how = "rawt", !.c = c, !.src = src]]
  /\ gpc' = [gpc EXCEPT ![t] = [st |-> "spawned", c |-> c]]
  /\ pc' = [pc EXCEPT ![t] = "rawt"]
  /\ UNCHANGED <<mu, rn, halt, jobChan, timerHist, stateVars, queueVars, workerVars, timerVars, vmVars,
                 globals, aw, ret,
                 order, finished, preStart, cleared, atBegin, nStarts>>

RunAsyncWithTimeout(t, c) == RunAsyncWithTimeoutOf(t, c, GoClosure)

\* The goroutine of RunAsyncWithTimeout: loop.Run marks the loop running and
\* calls the wrapping closure on the goroutine, which then runs the loop.
GoRun(t) ==
  /\ gpc[t].st = "spawned"
  /\ setRunning
  /\ ClosureBegin(gpc[t].c, GoOf[t])
  /\ owner' = GoOf[t]
  /\ cur' = Job("run", gpc[t].c, NoThread)
  /\ wpc' = "user"
  /\ gpc' = [gpc EXCEPT ![t] = [@ EXCEPT !.st = "running"]]
  /\ UNCHANGED <<mu, rn, halt, call, clockVars, stopped, before, tied, recleared, queueVars, batch,
                 firstPass, timerVars, globals, pc, aw, ret,
                 entry, finished, preStart, cleared, nStarts>>

\* RunAsyncWithTimeout, case <-done: return result, runErr.
RawtDone(t) ==
  /\ pc[t] = "rawt"
  /\ gpc[t].st = "closed"
  /\ pc' = [pc EXCEPT ![t] = "idle"]
  /\ gpc' = [gpc EXCEPT ![t] = [st |-> "none", c |-> 0]]
  /\ call' = [call EXCEPT ![t] = [@ EXCEPT !.out = "done", !.value = call[t].result,
                                           !.err = call[t].runErr,
                                           !.returns = CountUp(@)]]
  /\ UNCHANGED <<mu, rn, halt, clockVars, timerHist, stateVars, queueVars, workerVars, timerVars, vmVars, globals,
                 histVars, aw, ret>>

\* fmt.Errorf("execution timed out after %v", timeout)
TimeoutError == "timeout"

\* a timeout path that hands out what the goroutine has written so far
RawtTimeoutMixed(t) ==
  /\ pc[t] = "rawt"
  /\ canRun' = IF running THEN FALSE ELSE canRun
  /\ wakeupChan' = IF running THEN TRUE ELSE wakeupChan
  /\ pc' = [pc EXCEPT ![t] = "idle"]
  /\ call' = [call EXCEPT ![t] = [@ EXCEPT !.out = "timeout", !.value = call[t].result,
                                           !.err = TimeoutError,
                                           !.returns = CountUp(@)]]
  /\ UNCHANGED <<mu, rn, halt, clockVars, timerHist, running, auxJobs, workerVars, timerVars,
                 vmVars, globals, histVars, gpc, aw, ret>>

\* RunAsyncWithTimeout, case <-time.After(timeout): loop.StopNoWait(), return the
\* timeout error.  StopNoWait has no effect on a loop that is not running.
RawtTimeout(t) ==
  /\ pc[t] = "rawt"
  /\ canRun' = IF running THEN FALSE ELSE canRun
  /\ wakeupChan' = IF running THEN TRUE ELSE wakeupChan
  /\ pc' = [pc EXCEPT ![t] = "idle"]
  /\ call' = [call EXCEPT ![t] = [@ EXCEPT !.out = "timeout", !.value = "nil",
                                           !.err = TimeoutError,
                                           !.returns = CountUp(@),
                                           !.begunThen = runs[call[t].c],
                                           !.firedThen = call[t].fired]]
  /\ UNCHANGED <<mu, rn, halt, clockVars, timerHist, running, auxJobs, workerVars, timerVars, vmVars,
                 globals, histVars,
                 gpc, aw, ret>>

\* EventLoopRunner.AwaitPromise, the calling thread up to <-done: the locals are
\* fresh, the evaluating closure is handed to loop.RunOnLoop.
AwaitPromise(t, src) ==
  /\ pc[t] = "idle"
  /\ ~ret[t].returned
  /\ aw' = [aw EXCEPT ![t] = [NoAwait EXCEPT !.src = src, !.calledRunning = running]]
  /\ auxJobs' = Append(auxJobs, Job("awaitEval", 0, t))
  /\ wakeupChan' = TRUE
  /\ pc' = [pc EXCEPT ![t] = "await"]
  /\ UNCHANGED <<mu, rn, halt, call, clockVars, timerHist, stateVars, workerVars, timerVars, vmVars, globals,
                 histVars, gpc, ret>>

\* a return that does not wait for done
AwaitReturnEarly(t) ==
  /\ pc[t] = "await"
  /\ ret' = [ret EXCEPT ![t] =
       [returned |-> TRUE, src |-> aw[t].src, calledRunning |-> aw[t].calledRunning,
        by |-> aw[t].by, value |-> aw[t].resolvedValue, err |-> aw[t].promiseErr,
        settled |-> aw[t].settled, written |-> aw[t].written,
        checked |-> aw[t].checked, rechecked |-> aw[t].rechecked,
        timers |-> aw[t].timers]]
  /\ aw' = [aw EXCEPT ![t] = [@ EXCEPT !.doneClosed = FALSE]]
  /\ pc' = [pc EXCEPT ![t] = "idle"]
  /\ UNCHANGED <<mu, rn, halt, call, clockVars, timerHist, stateVars, queueVars, workerVars, timerVars, vmVars, globals,
                 histVars, gpc>>

\* EventLoopRunner.AwaitPromise, the calling thread from <-done on:
\* return resolvedValue, promiseErr.
AwaitReturn(t) ==
  /\ pc[t] = "await"
  /\ aw[t].doneClosed
  /\ ret' = [ret EXCEPT ![t] =
       [returned |-> TRUE, src |-> aw[t].src, calledRunning |-> aw[t].calledRunning,
        by |-> aw[t].by, value |-> aw[t].resolvedValue, err |-> aw[t].promiseErr,
        settled |-> aw[t].settled, written |-> aw[t].written,
        checked |-> aw[t].checked, rechecked |-> aw[t].rechecked,
        timers |-> aw[t].timers]]
  /\ aw' = [aw EXCEPT ![t] = NoAwait]
  /\ pc' = [pc EXCEPT ![t] = "idle"]
  /\ UNCHANGED <<mu, rn, halt, call, clockVars, timerHist, stateVars, queueVars, workerVars, timerVars, vmVars, globals,
                 histVars, gpc>>

\* ------------------------------------------------- the script of AwaitPromise

\* The value of the source expression: an error, a primitive or a promise.
EvalSource(src) ==
  CASE src.kind = "syntax" -> [err |-> "syntax", val |-> Undefined]
    [] src.kind = "throws" -> [err |-> "thrown", val |-> Undefined]
    [] src.kind = "value" -> [err |-> "none", val |-> src.v]
    [] OTHER -> [err |-> "none", val |-> PromiseVal]

\* typeof __promise.then === 'function'
HasCallableThen(val) == val = PromiseVal

\* a test of truthiness alone: if (__promise)
IsPromiseLikeTruthy(val) == ToBoolean(val)

\* if (__promise && typeof __promise.then === 'function')
IsPromiseLike(val) == ToBoolean(val) /\ HasCallableThen(val)

\* a fulfilment handler that forgets __result.done
OnFulfilledNoDone(obj, v) == [obj EXCEPT !.value = v]

\* .then(function(v) { __result.value = v; __result.done = true; })
OnFulfilled(obj, v) == [obj EXCEPT !.value = v, !.done = "true"]

\* .catch(function(e) { __result.error = e; __result.done = true; })
OnRejected(obj, e) == [obj EXCEPT !.error = e, !.done = "true"]

Settle(obj, src) ==
  IF src.outcome = "fulfil" THEN OnFulfilled(obj, src.v) ELSE OnRejected(obj, src.v)

\* vm.RunString(wrappedCode): the error, the __result object it returns, whether
\* the source started a script timer, and the state of the promise.  The engine
\* runs the continuations of an already settled promise before RunString returns.
RunWrapped(src) ==
  LET e == EvalSource(src) IN
  IF e.err # "none"
  THEN [err |-> EvalErr(e.err), obj |-> FreshResult, timer |-> FALSE, settled |-> "none"]
  ELSE IF IsPromiseLike(e.val)
  THEN IF ~HasCallableThen(e.val)
       THEN [err |-> EvalErr("thrown"), obj |-> FreshResult, timer |-> FALSE,
             settled |-> "none"]
       ELSE IF src.settle = "now"
       THEN [err |-> NoErr, obj |-> Settle(FreshResult, src), timer |-> FALSE,
             settled |-> src.outcome]
       ELSE [err |-> NoErr, obj |-> FreshResult, timer |-> src.settle = "timer",
             settled |-> "pending"]
  ELSE [err |-> NoErr, obj |-> [FreshResult EXCEPT !.value = e.val, !.done = "true"],
        timer |-> FALSE, settled |-> "none"]

IsUndefined(v) == v = Undefined
IsNull(v) == v = Null

\* a call that drops the error of RunString: resultObj, _ := vm.RunString(...)
EvalIgnoresErr(r) == FALSE

\* resultObj, err := vm.RunString(wrappedCode); if err != nil
EvalFailed(r) == r.err # NoErr


\* ---------------------------------------------------------- the loop worker

\* run(): the first runAux of the worker takes the queued closures.
RunAux ==
  /\ wpc = "runAux"
  /\ batch' = auxJobs
  /\ auxJobs' = <<>>
  /\ wpc' = "batch"
  /\ UNCHANGED <<mu, rn, halt, call, clockVars, timerHist, stateVars, wakeupChan, firstPass, cur, owner,
                 timerVars, vmVars,
                 globals, histVars, pc, gpc, aw, ret>>

\* run(), case <-loop.wakeupChan: runAux takes the queued closures.
SelectWakeup ==
  /\ wpc = "select"
  /\ wakeupChan
  /\ wakeupChan' = FALSE
  /\ batch' = auxJobs
  /\ auxJobs' = <<>>
  /\ wpc' = "batch"
  /\ UNCHANGED <<mu, rn, halt, call, clockVars, timerHist, stateVars, firstPass, cur, owner, timerVars, vmVars, globals,
                 histVars, pc, gpc, aw, ret>>

\* run(), for loop.jobCount > 0: a loop started in the background counts itself
\* as a job, a loop run in the foreground goes on while a timer is pending.
LoopCond == owner = Bg \/ JobCount > 0

\* run() returns: loop.running is cleared; Run returns to its caller, the
\* goroutine of RunAsyncWithTimeout closes done.
Leave ==
  /\ running' = FALSE
  /\ wpc' = "off"
  /\ owner' = NoThread
  /\ pc' = [t \in Threads |-> IF owner = t THEN "idle" ELSE pc[t]]
  /\ gpc' = [t \in Threads |->
               IF owner = GoOf[t] THEN [gpc[t] EXCEPT !.st = "closed"] ELSE gpc[t]]

Stay ==
  /\ wpc' = "select"
  /\ UNCHANGED <<mu, rn, halt, call, running, owner, pc, gpc>>

\* run(): the batch is done.  After a wake-up the worker leaves the loop when
\* canRun was cleared; otherwise the loop condition decides.
BatchDone ==
  /\ wpc = "batch"
  /\ batch = <<>>
  /\ IF (firstPass \/ canRun) /\ LoopCond THEN Stay ELSE Leave
  /\ firstPass' = FALSE
  /\ UNCHANGED <<mu, rn, halt, call, clockVars, timerHist, canRun, queueVars, batch, cur, timerVars, vmVars,
                 globals, histVars,
                 aw, ret>>

\* run(): after a job of loop.jobChan the loop condition decides.
AfterJob ==
  /\ wpc = "cond"
  /\ IF LoopCond THEN Stay ELSE Leave
  /\ UNCHANGED <<mu, rn, halt, call, clockVars, timerHist, canRun, queueVars, batch, firstPass, cur,
                 timerVars, vmVars, globals,
                 histVars, aw, ret>>

\* the armed timeouts whose timer has not expired
Ticking == {a \in goTimers : entry[a] = "timeout" /\ \A i \in 1..Len(jobChan) : jobChan[i] # a}

\* the armed timeouts whose goroutine waits to send
Expired == {a \in goTimers : entry[a] = "timeout" /\ \E i \in 1..Len(jobChan) : jobChan[i] = a}

\* how the expiry of timeout c, armed now, lies to the expiries of the armed timeouts
EarlierThan(c) ==
  IF entry[c] # "timeout" THEN {}
  ELSE {<<a, c>> : a \in Expired \cup {a \in Ticking : left[a] < left[c]}}

LaterThan(c) ==
  IF entry[c] # "timeout" THEN {}
  ELSE {<<c, a>> : a \in {a \in Ticking : left[a] > left[c]}}

TiedWith(c) ==
  IF entry[c] # "timeout" THEN {}
  ELSE {{a, c} : a \in {a \in Ticking : left[a] = left[c]}}

\* The job loop.SetTimeout / loop.SetInterval queued: the timer is armed.
ArmTimer ==
  /\ wpc = "batch"
  /\ batch # <<>>
  /\ Head(batch).kind = "arm"
  /\ batch' = Tail(batch)
  /\ goTimers' = goTimers \cup {Head(batch).c}
  /\ before' = before \cup EarlierThan(Head(batch).c) \cup LaterThan(Head(batch).c)
  /\ tied' = tied \cup TiedWith(Head(batch).c)
  /\ UNCHANGED <<mu, rn, halt, call, clockVars, stopped, lateRuns, recleared, stateVars, queueVars,
                 firstPass, wpc, cur, owner, jsTimers, vmVars,
                 globals, histVars, pc, gpc, aw, ret>>

\* The job loop.ClearTimeout / loop.ClearInterval queued: an armed timer is
\* cancelled, a timer that fired or was cancelled is left alone.
DisarmTimer ==
  /\ wpc = "batch"
  /\ batch # <<>>
  /\ Head(batch).kind = "clear"
  /\ batch' = Tail(batch)
  /\ goTimers' = goTimers \ {Head(batch).c}
  /\ stopped' = IF Head(batch).c \in goTimers THEN stopped \cup {Head(batch).c} ELSE stopped
  /\ UNCHANGED <<mu, rn, halt, call, clockVars, lateRuns, before, tied, recleared, stateVars, queueVars,
                 firstPass, wpc, cur, owner, jsTimers, vmVars,
                 globals, histVars, pc, gpc, aw, ret>>

\* run(), case job := <-loop.jobChan: a timer of SetTimeout or SetInterval is
\* due; the wrapping closure begins.  A timeout is spent, an interval stays armed.
GoTimerFire(c) ==
  /\ wpc = "select"
  /\ c \in goTimers
  /\ goTimers' = IF entry[c] = "timeout" THEN goTimers \ {c} ELSE goTimers
  /\ ClosureBegin(c, owner)
  /\ cur' = Job("timer", c, NoThread)
  /\ wpc' = "user"
  /\ UNCHANGED <<mu, rn, halt, call, clockVars, stopped, before, tied, recleared, stateVars, queueVars,
                 batch, firstPass, owner, jsTimers, globals,
                 entry, finished, preStart, cleared, nStarts, pc, gpc, aw, ret>>

\* The clock ticks.  A timer that is due expires before the clock goes on: a
\* tick is longer than the goroutine of a timer takes to reach its send.
Tick ==
  /\ \A c \in goTimers : (\A i \in 1..Len(jobChan) : jobChan[i] # c) => left[c] > 0
  /\ \E c \in 1..Len(entry) : (c \in goTimers /\ left[c] > 0) \/ age[c] < delay[c]
  /\ left' = [c \in 1..Len(entry) |->
                IF c \in goTimers /\ left[c] > 0 THEN left[c] - 1 ELSE left[c]]
  /\ age' = [c \in 1..Len(entry) |-> IF age[c] < delay[c] THEN age[c] + 1 ELSE age[c]]
  /\ UNCHANGED <<mu, rn, halt, call, delay, jobChan, timerHist, stateVars, queueVars, workerVars, timerVars,
                 vmVars, globals, pc, gpc, aw, ret, histVars>>

\* The timer of a timeout or the ticker of an interval expires: its goroutine
\* sends the job on loop.jobChan and waits until the worker receives it.  The
\* ticker of an interval goes on with the next period.
Expire(c) ==
  /\ c \in goTimers
  /\ \A i \in 1..Len(jobChan) : jobChan[i] # c
  /\ left[c] = 0
  /\ jobChan' = Append(jobChan, c)
  /\ left' = IF entry[c] = "interval" THEN [left EXCEPT ![c] = delay[c]] ELSE left
  /\ UNCHANGED <<mu, rn, halt, call, delay, age, timerHist, stateVars, queueVars, workerVars, timerVars,
                 vmVars, globals, pc, gpc, aw, ret, histVars>>

\* a worker that takes the job that reached jobChan last
RecvTimerLast ==
  /\ wpc = "select"
  /\ jobChan # <<>>
  /\ jobChan' = SubSeq(jobChan, 1, Len(jobChan) - 1)
  /\ LET c == jobChan[Len(jobChan)] IN
     IF c \in goTimers
     THEN /\ goTimers' = IF entry[c] = "timeout" THEN goTimers \ {c} ELSE goTimers
          /\ ClosureBegin(c, owner)
          /\ cur' = Job("timer", c, NoThread)
          /\ wpc' = "user"
     ELSE /\ wpc' = "cond"
          /\ UNCHANGED <<goTimers, vmVars, runs, order, lateRuns, atBegin, cur>>
  /\ UNCHANGED <<mu, rn, halt, call, delay, left, age, stopped, before, tied, recleared, stateVars, queueVars,
                 batch, firstPass, owner, jsTimers, globals, entry, finished, preStart,
                 cleared, nStarts, pc, gpc, aw, ret>>

\* run(), case job := <-loop.jobChan: doTimeout or doInterval.  The closure of a
\* handle that is not cancelled begins, and a timeout is spent; the job of a
\* cancelled handle does nothing.
RecvTimer ==
  /\ wpc = "select"
  /\ jobChan # <<>>
  /\ jobChan' = Tail(jobChan)
  /\ LET c == Head(jobChan) IN
     IF c \in goTimers
     THEN /\ goTimers' = IF entry[c] = "timeout" THEN goTimers \ {c} ELSE goTimers
          /\ ClosureBegin(c, owner)
          /\ cur' = Job("timer", c, NoThread)
          /\ wpc' = "user"
     ELSE /\ wpc' = "cond"
          /\ UNCHANGED <<goTimers, vmVars, runs, order, lateRuns, atBegin, cur>>
  /\ UNCHANGED <<mu, rn, halt, call, delay, left, age, stopped, before, tied, recleared, stateVars, queueVars,
                 batch, firstPass, owner, jsTimers, globals, entry, finished, preStart,
                 cleared, nStarts, pc, gpc, aw, ret>>

\* run(), case job := <-loop.jobChan: a script timer fires.  Its callback settles
\* the promise and the engine runs the continuations attached by AwaitPromise.
TimerFire(t) ==
  /\ wpc = "select"
  /\ t \in jsTimers
  /\ jsTimers' = jsTimers \ {t}
  /\ aw' = [aw EXCEPT ![t] = [@ EXCEPT !.obj = Settle(@, aw[t].src),
                                       !.settled = aw[t].src.outcome]]
  /\ wpc' = "cond"
  /\ UNCHANGED <<mu, rn, halt, call, clockVars, timerHist, stateVars, queueVars, batch, firstPass, cur,
                 owner, goTimers, vmVars,
                 globals, histVars, pc, gpc, ret>>

\* The closure RunOnLoop queued begins.
UserBegin ==
  /\ wpc = "batch"
  /\ batch # <<>>
  /\ Head(batch).kind = "user"
  /\ batch' = Tail(batch)
  /\ ClosureBegin(Head(batch).c, owner)
  /\ cur' = Head(batch)
  /\ wpc' = "user"
  /\ UNCHANGED <<mu, rn, halt, call, clockVars, stopped, before, tied, recleared, stateVars, queueVars,
                 firstPass, owner, timerVars, globals,
                 entry, finished, preStart, cleared, nStarts, pc, gpc, aw, ret>>

\* The closure RunOnLoop queued is next: setupVM, r.mu.RLock().  The worker goes
\* on when no goroutine holds the lock to write.
SetupLock ==
  /\ wpc = "batch"
  /\ batch # <<>>
  /\ Head(batch).kind = "user"
  /\ mu.w = {}
  /\ mu' = [mu EXCEPT !.r = @ \cup {owner}]
  /\ wpc' = "setup"
  /\ UNCHANGED <<rn, halt, call, clockVars, timerHist, stateVars, queueVars, batch,
                 firstPass, cur, owner, timerVars, vmVars, globals, histVars, pc, gpc,
                 aw, ret>>

\* a wrapping closure that gives the lock back when fn has returned
SetupBeginHolding ==
  /\ wpc = "setup"
  /\ batch' = Tail(batch)
  /\ ClosureBegin(Head(batch).c, owner)
  /\ cur' = Head(batch)
  /\ wpc' = "user"
  /\ UNCHANGED <<mu, rn, halt, call, clockVars, stopped, before, tied, recleared,
                 stateVars, queueVars, firstPass, owner, timerVars, globals, entry,
                 finished, preStart, cleared, nStarts, pc, gpc, aw, ret>>

\* setupVM under the read lock: vm.Set of every entry of the registry, the
\* deferred r.mu.RUnlock() as setupVM returns, and fn(vm) begins.
SetupBegin ==
  /\ wpc = "setup"
  /\ batch' = Tail(batch)
  /\ ClosureBegin(Head(batch).c, owner)
  /\ cur' = Head(batch)
  /\ wpc' = "user"
  /\ mu' = [mu EXCEPT !.r = @ \ {owner}]
  /\ UNCHANGED <<rn, halt, call, clockVars, stopped, before, tied, recleared,
                 stateVars, queueVars, firstPass, owner, timerVars, globals, entry,
                 finished, preStart, cleared, nStarts, pc, gpc, aw, ret>>

\* the thread whose call runs the loop on goroutine g
CallerOf(g) == IF g \in Threads THEN g ELSE CHOOSE t \in Threads : GoOf[t] = g

\* the name a call's script timer is counted under in the loop's job count
RunTag == [t \in Threads |-> IF t = "h1" THEN "r1" ELSE "r2"]

\* an evaluation that drops the error of RunString
EvaluatedNoErr(k) ==
  IF k.src.kind = "closure" THEN [k EXCEPT !.evaluated = TRUE]
  ELSE [k EXCEPT !.evaluated = TRUE,
                 !.result = IF EvalSource(k.src).err = "none"
                            THEN EvalSource(k.src).val ELSE "nil",
                 !.toSet = IF k.src.timers > 0 THEN k.src.timers - 1 ELSE 0]

\* result, runErr = vm.RunString(code): the closure writes the variables it
\* captures; the source has set its first script timer, if it has one.
Evaluated(k) ==
  IF k.src.kind = "closure" THEN [k EXCEPT !.evaluated = TRUE]
  ELSE [k EXCEPT !.evaluated = TRUE,
                 !.result = IF EvalSource(k.src).err = "none"
                            THEN EvalSource(k.src).val ELSE "nil",
                 !.runErr = EvalSource(k.src).err,
                 !.toSet = IF k.src.timers > 0 THEN k.src.timers - 1 ELSE 0]

\* run(), case job := <-loop.jobChan: a script timer of the source fires; its
\* callback sets the next script timer, if the source has one more.
ScriptTimerFire(t) ==
  /\ wpc = "select"
  /\ RunTag[t] \in jsTimers
  /\ call' = [call EXCEPT ![t] = [@ EXCEPT !.fired = @ + 1,
                                           !.toSet = IF @ > 0 THEN @ - 1 ELSE 0]]
  /\ jsTimers' = IF call[t].toSet > 0 THEN jsTimers ELSE jsTimers \ {RunTag[t]}
  /\ wpc' = "cond"
  /\ UNCHANGED <<mu, rn, halt, clockVars, timerHist, stateVars, queueVars, batch, firstPass, cur,
                 owner, goTimers, vmVars, globals, histVars, pc, gpc, aw, ret>>

\* fn(vm) returns; the script it ran may have reassigned the registered name n.
\* The closure of Run is followed by run(), a queued closure by the rest of its
\* batch, a timer's closure by the loop condition.
UserEnd(n) ==
  /\ wpc = "user"
  /\ vmGlobals' = IF n \in GlobalNames
                  THEN [vmGlobals EXCEPT ![n] = ScriptValue] ELSE vmGlobals
  /\ engineUsers' = engineUsers \ {owner}
  /\ finished' = finished \cup {cur.c}
  /\ cur' = NoJob
  /\ wpc' = CASE cur.kind = "run" -> "runAux"
              [] cur.kind = "timer" -> "cond"
              [] OTHER -> "batch"
  /\ firstPass' = IF cur.kind = "run" THEN TRUE ELSE firstPass
  /\ call' = IF cur.kind = "run"
             THEN [call EXCEPT ![CallerOf(owner)] = Evaluated(@)] ELSE call
  /\ jsTimers' = IF cur.kind = "run" /\ call[CallerOf(owner)].src.timers > 0
                 THEN jsTimers \cup {RunTag[CallerOf(owner)]} ELSE jsTimers
  /\ UNCHANGED <<mu, rn, halt, clockVars, timerHist, stateVars, queueVars, batch, owner, goTimers,
                 globals, pc, gpc, aw,
                 ret, entry, order, runs, preStart, cleared, atBegin, nStarts>>

\* an evaluation whose __result is one object for all calls
AwaitEvalShared ==
  /\ wpc = "batch"
  /\ batch # <<>>
  /\ Head(batch).kind = "awaitEval"
  /\ LET t == Head(batch).t
         r == RunWrapped(aw[t].src)
     IN /\ batch' = Tail(batch)
        /\ vmGlobals' = setupVM(vmGlobals, globals)
        /\ atBegin' = Began(vmGlobals, vmGlobals', globals)
        /\ jsTimers' = IF r.timer THEN jsTimers \cup {t} ELSE jsTimers
        /\ IF EvalFailed(r)
           THEN /\ aw' = [aw EXCEPT ![t] = [@ EXCEPT !.by = @ \cup {owner},
                                                    !.promiseErr = r.err,
                                                    !.written = TRUE]]
                /\ cur' = Head(batch)
                /\ wpc' = "close"
                /\ UNCHANGED <<auxJobs, wakeupChan>>
           ELSE /\ aw' = [u \in Threads |->
                     IF u = t
                     THEN [aw[u] EXCEPT !.by = @ \cup {owner},
                                        !.obj = r.obj,
                                        !.settled = r.settled,
                                        !.timers = IF r.timer THEN @ + 1 ELSE @,
                                        !.checked = TRUE]
                     ELSE [aw[u] EXCEPT !.obj = r.obj]]
                /\ auxJobs' = Append(auxJobs, Job("awaitCheck", 0, t))
                /\ wakeupChan' = TRUE
                /\ cur' = NoJob
                /\ wpc' = "batch"
  /\ UNCHANGED <<mu, rn, halt, call, clockVars, timerHist, stateVars, firstPass, owner, goTimers,
                 engineUsers, globals, pc, gpc,
                 ret, entry, order, runs, finished, preStart, cleared, nStarts>>

\* The closure AwaitPromise hands to the loop: setupVM, RunString(wrappedCode);
\* on an error promiseErr = err and close(done) follows, and nothing is scheduled;
\* otherwise the first checkResult closure is handed to loop.RunOnLoop.
AwaitEval ==
  /\ wpc = "batch"
  /\ batch # <<>>
  /\ Head(batch).kind = "awaitEval"
  /\ LET t == Head(batch).t
         r == RunWrapped(aw[t].src)
     IN /\ batch' = Tail(batch)
        /\ vmGlobals' = setupVM(vmGlobals, globals)
        /\ atBegin' = Began(vmGlobals, vmGlobals', globals)
        /\ jsTimers' = IF r.timer THEN jsTimers \cup {t} ELSE jsTimers
        /\ IF EvalFailed(r)
           THEN /\ aw' = [aw EXCEPT ![t] = [@ EXCEPT !.by = @ \cup {owner},
                                                    !.promiseErr = r.err,
                                                    !.written = TRUE]]
                /\ cur' = Head(batch)
                /\ wpc' = "close"
                /\ UNCHANGED <<auxJobs, wakeupChan>>
           ELSE /\ aw' = [aw EXCEPT ![t] = [@ EXCEPT !.by = @ \cup {owner},
                                                    !.obj = r.obj,
                                                    !.settled = r.settled,
                                                    !.timers = IF r.timer THEN @ + 1 ELSE @,
                                                    !.checked = TRUE]]
                /\ auxJobs' = Append(auxJobs, Job("awaitCheck", 0, t))
                /\ wakeupChan' = TRUE
                /\ cur' = NoJob
                /\ wpc' = "batch"
  /\ UNCHANGED <<mu, rn, halt, call, clockVars, timerHist, stateVars, firstPass, owner, goTimers,
                 engineUsers, globals, pc, gpc,
                 ret, entry, order, runs, finished, preStart, cleared, nStarts>>

\* a checkResult that hands itself to the loop again also when it closes done
AwaitCheckResubmits ==
  /\ wpc = "batch"
  /\ batch # <<>>
  /\ Head(batch).kind = "awaitCheck"
  /\ LET t == Head(batch).t
         obj == aw[t].obj
     IN /\ batch' = Tail(batch)
        /\ IF ToBoolean(obj.done)
           THEN /\ aw' = [aw EXCEPT ![t] =
                     IF ~IsUndefined(obj.error) /\ ~IsNull(obj.error)
                     THEN [@ EXCEPT !.by = @ \cup {owner},
                                    !.promiseErr = RejectionErr(obj.error),
                                    !.written = TRUE]
                     ELSE [@ EXCEPT !.by = @ \cup {owner},
                                    !.resolvedValue = Export(obj.value),
                                    !.written = TRUE]]
                /\ cur' = Head(batch)
                /\ wpc' = "close"
                /\ auxJobs' = Append(auxJobs, Job("awaitCheck", 0, t))
                /\ wakeupChan' = TRUE
           ELSE /\ aw' = [aw EXCEPT ![t] = [@ EXCEPT !.by = @ \cup {owner},
                                                    !.rechecked = TRUE]]
                /\ auxJobs' = Append(auxJobs, Job("awaitCheck", 0, t))
                /\ wakeupChan' = TRUE
                /\ cur' = NoJob
                /\ wpc' = "batch"
  /\ UNCHANGED <<mu, rn, halt, call, clockVars, timerHist, stateVars, firstPass, owner, timerVars, vmVars,
                 globals, histVars,
                 pc, gpc, ret>>

\* a checkResult that hands itself to the loop twice while the promise is unsettled
AwaitCheckTwice ==
  /\ wpc = "batch"
  /\ batch # <<>>
  /\ Head(batch).kind = "awaitCheck"
  /\ LET t == Head(batch).t
         obj == aw[t].obj
     IN /\ batch' = Tail(batch)
        /\ IF ToBoolean(obj.done)
           THEN /\ aw' = [aw EXCEPT ![t] =
                     IF ~IsUndefined(obj.error) /\ ~IsNull(obj.error)
                     THEN [@ EXCEPT !.by = @ \cup {owner},
                                    !.promiseErr = RejectionErr(obj.error),
                                    !.written = TRUE]
                     ELSE [@ EXCEPT !.by = @ \cup {owner},
                                    !.resolvedValue = Export(obj.value),
                                    !.written = TRUE]]
                /\ cur' = Head(batch)
                /\ wpc' = "close"
                /\ UNCHANGED <<auxJobs, wakeupChan>>
           ELSE /\ aw' = [aw EXCEPT ![t] = [@ EXCEPT !.by = @ \cup {owner},
                                                    !.rechecked = TRUE]]
                /\ auxJobs' = auxJobs \o <<Job("awaitCheck", 0, t), Job("awaitCheck", 0, t)>>
                /\ wakeupChan' = TRUE
                /\ cur' = NoJob
                /\ wpc' = "batch"
  /\ UNCHANGED <<mu, rn, halt, call, clockVars, timerHist, stateVars, firstPass, owner, timerVars, vmVars,
                 globals, histVars,
                 pc, gpc, ret>>

\* a checkResult that looks at __result again itself, without leaving the worker,
\* while the promise is unsettled
AwaitCheckSpin ==
  /\ wpc = "batch"
  /\ batch # <<>>
  /\ Head(batch).kind = "awaitCheck"
  /\ LET t == Head(batch).t
         obj == aw[t].obj
     IN /\ batch' = IF ToBoolean(obj.done) THEN Tail(batch) ELSE batch
        /\ IF ToBoolean(obj.done)
           THEN /\ aw' = [aw EXCEPT ![t] =
                     IF ~IsUndefined(obj.error) /\ ~IsNull(obj.error)
                     THEN [@ EXCEPT !.by = @ \cup {owner},
                                    !.promiseErr = RejectionErr(obj.error),
                                    !.written = TRUE]
                     ELSE [@ EXCEPT !.by = @ \cup {owner},
                                    !.resolvedValue = Export(obj.value),
                                    !.written = TRUE]]
                /\ cur' = Head(batch)
                /\ wpc' = "close"
                /\ UNCHANGED <<auxJobs, wakeupChan>>
           ELSE /\ aw' = [aw EXCEPT ![t] = [@ EXCEPT !.by = @ \cup {owner},
                                                    !.rechecked = TRUE]]
                /\ UNCHANGED <<auxJobs, wakeupChan>>
                /\ cur' = NoJob
                /\ wpc' = "batch"
  /\ UNCHANGED <<mu, rn, halt, call, clockVars, timerHist, stateVars, firstPass, owner, timerVars, vmVars,
                 globals, histVars,
                 pc, gpc, ret>>

\* checkResult: when __result.done is set, a defined non-null __result.error makes
\* promiseErr, otherwise __result.value is exported into resolvedValue, and
\* close(done) follows; when it is not set, checkResult is handed to the loop again.
AwaitCheck ==
  /\ wpc = "batch"
  /\ batch # <<>>
  /\ Head(batch).kind = "awaitCheck"
  /\ LET t == Head(batch).t
         obj == aw[t].obj
     IN /\ batch' = Tail(batch)
        /\ IF ToBoolean(obj.done)
           THEN /\ aw' = [aw EXCEPT ![t] =
                     IF ~IsUndefined(obj.error) /\ ~IsNull(obj.error)
                     THEN [@ EXCEPT !.by = @ \cup {owner},
                                    !.promiseErr = RejectionErr(obj.error),
                                    !.written = TRUE]
                     ELSE [@ EXCEPT !.by = @ \cup {owner},
                                    !.resolvedValue = Export(obj.value),
                                    !.written = TRUE]]
                /\ cur' = Head(batch)
                /\ wpc' = "close"
                /\ UNCHANGED <<auxJobs, wakeupChan>>
           ELSE /\ aw' = [aw EXCEPT ![t] = [@ EXCEPT !.by = @ \cup {owner},
                                                    !.rechecked = TRUE]]
                /\ auxJobs' = Append(auxJobs, Job("awaitCheck", 0, t))
                /\ wakeupChan' = TRUE
                /\ cur' = NoJob
                /\ wpc' = "batch"
  /\ UNCHANGED <<mu, rn, halt, call, clockVars, timerHist, stateVars, firstPass, owner, timerVars, vmVars,
                 globals, histVars,
                 pc, gpc, ret>>

\* close(done)
CloseDone ==
  /\ wpc = "close"
  /\ aw' = [aw EXCEPT ![cur.t] = [@ EXCEPT !.doneClosed = TRUE, !.closes = CountUp(@)]]
  /\ cur' = NoJob
  /\ wpc' = "batch"
  /\ UNCHANGED <<mu, rn, halt, call, clockVars, timerHist, stateVars, queueVars, batch, firstPass, owner,
                 timerVars, vmVars,
                 globals, histVars, pc, gpc, ret>>

\* ------------------------------------------------------------ specifications

\* the worker's own loop
Loop == RunAux \/ SelectWakeup \/ BatchDone

\* the closures of AwaitPromise
Awaiting == AwaitEval \/ AwaitCheck \/ CloseDone \/ \E t \in Threads : AwaitReturn(t)

\* Spec: the scheduling, cancelling, registering and awaiting operations on a
\* loop that is running.  One thread awaits; the operations that do not block
\* their caller come from any thread.
WhileRunning ==
  /\ running
  /\ \/ \E t \in Threads, c \in 1..MaxClosures : RunOnLoop(t, c)
     \/ \E t \in Threads, c \in 1..MaxClosures : SetTimeout(t, c)
     \/ \E t \in Threads, c \in 1..MaxClosures : SetInterval(t, c)
     \/ \E t \in Threads, c \in 1..MaxClosures : ClearTimeout(t, c)
     \/ \E t \in Threads, c \in 1..MaxClosures : ClearInterval(t, c)
     \/ \E t \in Threads : SetGlobal(t, "x", "v1")
     \/ \E src \in CoreSources : AwaitPromise("h1", src)

Next ==
  \/ \E t \in Threads : Start(t)
  \/ WhileRunning
  \/ Loop
  \/ Awaiting
  \/ AfterJob
  \/ ArmTimer
  \/ DisarmTimer
  \/ UserBegin
  \/ UserEnd("none")
  \/ \E c \in 1..MaxClosures : GoTimerFire(c)
  \/ \E t \in Threads : TimerFire(t)

Spec == Init /\ [][Next]_vars

\* SpecAwait: AwaitPromise alone, from both threads and on every kind of source,
\* called before or after Start.
NextAwait ==
  \/ \E t \in Threads : Start(t)
  \/ \E t \in Threads, src \in AwaitSources : AwaitPromise(t, src)
  \/ Loop
  \/ Awaiting
  \/ AfterJob
  \/ \E t \in Threads : TimerFire(t)

SpecAwait == Init /\ [][NextAwait]_vars

\* The worker goroutine is scheduled; a due script timer sits in jobChan beside
\* the wake-up token and the worker's select picks among the ready channels at
\* random, so the timer's job is taken in the end; a thread blocked on <-done
\* goes on once done is closed.
FairAwait ==
  /\ SpecAwait
  /\ WF_vars(Loop \/ AwaitEval \/ AwaitCheck \/ CloseDone \/ AfterJob)
  /\ SF_vars(\E t \in Threads : TimerFire(t))
  /\ \A t \in Threads : WF_vars(AwaitReturn(t))

\* SpecLoop: closures handed to RunOnLoop before and after Start, beside the
\* closures of timers.
NextLoop ==
  \/ \E t \in Threads : Start(t)
  \/ \E t \in Threads, c \in 1..MaxClosures : RunOnLoop(t, c)
  \/ \E t \in Threads, c \in 1..MaxClosures : SetTimeout(t, c)
  \/ Loop
  \/ AfterJob
  \/ ArmTimer
  \/ UserBegin
  \/ UserEnd("none")
  \/ \E c \in 1..MaxClosures : GoTimerFire(c)

SpecLoop == Init /\ [][NextLoop]_vars

\* The worker goroutine is scheduled, an armed timer becomes due, and a user
\* closure returns.
FairLoop ==
  /\ SpecLoop
  /\ WF_vars(Loop \/ AfterJob \/ ArmTimer \/ UserBegin \/ UserEnd("none")
               \/ \E c \in 1..MaxClosures : GoTimerFire(c))

\* the worker of a loop whose timers run on the clock
TimedLoop ==
  \/ Loop
  \/ AfterJob
  \/ ArmTimer
  \/ DisarmTimer
  \/ RecvTimer
  \/ UserEnd("none")

\* the clock and the goroutines of the timers
Clock == Tick \/ \E c \in 1..MaxClosures : Expire(c)

\* SpecTimers: timeouts of different delays on a clock, handed over before and
\* after Start, their cancellation, and closures that keep the worker busy.
NextTimers ==
  \/ \E t \in Threads : Start(t)
  \/ \E c \in 1..MaxClosures, d \in Delays : SetTimeoutAfter("h1", c, d)
  \/ \E c \in 1..MaxClosures : RunOnLoop("h2", c)
  \/ \E t \in Threads, c \in 1..MaxClosures : ClearTimeout(t, c)
  \/ Clock
  \/ TimedLoop
  \/ UserBegin

SpecTimers == Init /\ [][NextTimers]_vars

\* The worker goroutine is scheduled and takes a job that waits on jobChan in
\* the end, the clock goes on, a due timer expires and a user closure returns.
FairTimers ==
  /\ SpecTimers
  /\ WF_vars(Loop \/ AfterJob \/ ArmTimer \/ DisarmTimer \/ UserBegin \/ UserEnd("none"))
  /\ SF_vars(RecvTimer)
  /\ SF_vars(SelectWakeup)
  /\ WF_vars(Tick)
  /\ \A c \in 1..MaxClosures : WF_vars(Expire(c))

\* SpecClear: timeouts and intervals on a started loop and calls of ClearTimeout
\* and ClearInterval on their handles, once and again, from any thread.
NextClear ==
  \/ \E t \in Threads : Start(t)
  \/ running /\ \E c \in 1..MaxTimers : SetTimeoutAfter("h1", c, 1)
  \/ running /\ \E c \in 1..MaxTimers : SetIntervalAfter("h1", c, 1)
  \/ \E t \in Threads, c \in 1..MaxClosures : ClearTimeout(t, c)
  \/ \E t \in Threads, c \in 1..MaxClosures : ClearInterval(t, c)
  \/ \E t \in Threads, c \in 1..MaxClosures : ClearTimerAgain(t, c)
  \/ Clock
  \/ TimedLoop

SpecClear == Init /\ [][NextClear]_vars

\* SpecIntervals: intervals of different periods on a started loop and their
\* cancellation.
NextIntervals ==
  \/ \E t \in Threads : Start(t)
  \/ running /\ \E c \in 1..MaxTimers, d \in Delays : SetIntervalAfter("h1", c, d)
  \/ \E t \in Threads, c \in 1..MaxClosures : ClearInterval(t, c)
  \/ Clock
  \/ TimedLoop

SpecIntervals == Init /\ [][NextIntervals]_vars

\* The worker goroutine is scheduled and takes a job that waits on jobChan in
\* the end, the clock goes on, a due ticker expires and a user closure returns.
FairIntervals ==
  /\ SpecIntervals
  /\ WF_vars(Loop \/ AfterJob \/ ArmTimer \/ DisarmTimer \/ UserEnd("none"))
  /\ SF_vars(RecvTimer)
  /\ SF_vars(SelectWakeup)
  /\ WF_vars(Tick)
  /\ \A c \in 1..MaxClosures : WF_vars(Expire(c))

\* SpecStop: closures and timeouts handed to a started loop that one thread then
\* tells to stop, with Stop or with StopNoWait, while the other goes on.
NextStop ==
  \/ Start("h1")
  \/ Stop("h1")
  \/ StopReturn("h1")
  \/ StopNoWait("h1")
  \/ \E c \in 1..MaxClosures : RunOnLoop("h2", c)
  \/ \E c \in 1..MaxClosures : SetTimeoutAfter("h2", c, 1)
  \/ Clock
  \/ Loop \/ AfterJob \/ ArmTimer \/ RecvTimer \/ UserEnd("none")
  \/ UserBegin

SpecStop == Init /\ [][NextStop]_vars

\* SpecRun: a thread calls Run and RunAsync on a runner that was never started,
\* while another registers values and hands closures to RunOnLoop.
NextRun ==
  \/ \E c \in 1..MaxClosures : Run("h1", c)
  \/ \E c \in 1..MaxClosures, src \in RunSources : RunAsyncOf("h1", c, src)
  \/ \E c \in 1..MaxClosures : RunOnLoop("h2", c)
  \/ \E v \in HostValues : SetGlobal("h2", "x", v)
  \/ ScriptTimerFire("h1")
  \/ Loop \/ AfterJob \/ UserBegin \/ UserEnd("none")

SpecRun == Init /\ [][NextRun]_vars

\* SpecRawt: a thread calls RunAsyncWithTimeout on a runner that was never
\* started, while another hands closures to RunOnLoop.
NextRawt ==
  \/ \E c \in 1..MaxClosures, src \in RunSources : RunAsyncWithTimeoutOf("h1", c, src)
  \/ GoRun("h1")
  \/ RawtDone("h1")
  \/ RawtTimeout("h1")
  \/ \E c \in 1..MaxClosures : RunOnLoop("h2", c)
  \/ ScriptTimerFire("h1")
  \/ Loop \/ AfterJob \/ UserBegin \/ UserEnd("none")

SpecRawt == Init /\ [][NextRawt]_vars

\* SpecLock: threads register values, step by step under the registry's lock,
\* and hand closures and timers to a started loop whose worker binds the registry
\* under the read lock before each closure.
NextLock ==
  \/ Start("h1")
  \/ \E t \in Threads : SetGlobalLock(t)
  \/ \E t \in Threads, v \in HostValues : SetGlobalWrite(t, "x", v)
  \/ \E t \in Threads : SetGlobalUnlock(t)
  \/ \E t \in Threads, c \in 1..MaxClosures : RunOnLoop(t, c)
  \/ \E t \in Threads, c \in 1..MaxClosures : SetTimeoutAfter(t, c, 1)
  \/ \E t \in Threads, c \in 1..MaxClosures : SetIntervalAfter(t, c, 1)
  \/ \E t \in Threads, c \in 1..MaxClosures : ClearTimeout(t, c)
  \/ \E t \in Threads, c \in 1..MaxClosures : ClearInterval(t, c)
  \/ Loop \/ ArmTimer \/ DisarmTimer
  \/ SetupLock
  \/ SetupBegin
  \/ UserEnd("none")

SpecLock == Init /\ [][NextLock]_vars

\* SpecGlobals: every entry point that runs a user closure, while threads
\* register values and scripts reassign the registered name.
NextGlobals ==
  \/ \E t \in Threads : Start(t)
  \/ \E t \in Threads, v \in HostValues : SetGlobal(t, "x", v)
  \/ \E t \in Threads, c \in 1..MaxClosures : RunOnLoop(t, c)
  \/ \E c \in 1..MaxClosures : SetTimeout("h1", c)
  \/ \E c \in 1..MaxClosures : SetInterval("h1", c)
  \/ \E c \in 1..MaxClosures : Run("h1", c)
  \/ \E c \in 1..MaxClosures : RunAsync("h1", c)
  \/ \E c \in 1..MaxClosures : RunAsyncWithTimeout("h2", c)
  \/ GoRun("h2")
  \/ RawtDone("h2")
  \/ RawtTimeout("h2")
  \/ AwaitPromise("h2", Src("value", "na", "na", "42"))
  \/ Loop
  \/ Awaiting
  \/ AfterJob
  \/ ArmTimer
  \/ UserBegin
  \/ \E n \in GlobalNames \cup {"none"} : UserEnd(n)
  \/ \E c \in 1..MaxClosures : GoTimerFire(c)

SpecGlobals == Init /\ [][NextGlobals]_vars

\* ------------------------------------------------------------------ claims

Rejects(src) == src.kind = "promise" /\ src.outcome = "reject"
Fulfils(src) == src.kind = "promise" /\ src.outcome = "fulfil"
\* the closures of thread t's AwaitPromise that wait in the loop's queue
QueuedFor(t, k) ==
  {i \in 1..Len(auxJobs) : auxJobs[i].kind = k /\ auxJobs[i].t = t}
  \cup {i \in 1..Len(batch) : batch[i].kind = k /\ batch[i].t = t}

\* C1: while the loop runs and threads schedule, cancel, register and await,
\* at most one goroutine is inside the engine, it is the goroutine that runs the
\* loop, and it is inside one closure.
C1_OneEngineUser ==
  /\ Cardinality(engineUsers) <= 1
  /\ engineUsers \subseteq {owner}
  /\ engineUsers # {} => wpc = "user" /\ cur # NoJob

\* a closure is inside the engine while a thread awaits, another closure waits
\* in the queue and a timer is armed
C1_Witness ==
  /\ engineUsers = {Bg}
  /\ wpc = "user"
  /\ \E t \in Threads : pc[t] = "await"
  /\ auxJobs # <<>>
  /\ goTimers # {}

\* C2: during AwaitPromise the awaiting thread is never inside the engine; the
\* source is evaluated and __result is read and exported by closures the loop
\* worker runs, never by the awaiting thread; done is closed only after
\* resolvedValue or promiseErr was written, and the thread returns only after
\* done was closed, so what it returns was written before.
C2_AwaitOnWorker ==
  \A t \in Threads :
    /\ t \notin engineUsers
    /\ aw[t].by \subseteq {Bg}
    /\ ret[t].by \subseteq {Bg}
    /\ aw[t].doneClosed => aw[t].written
    /\ ret[t].returned => ret[t].written /\ ret[t].by = {Bg}

\* a call on a pending promise returned after the worker polled it more than once
C2_Witness ==
  \E t \in Threads :
    /\ ret[t].returned
    /\ ret[t].src.settle = "timer"
    /\ ret[t].rechecked
    /\ ret[t].by = {Bg}
    /\ ret[t].written

\* C3: on a running loop a call whose source evaluates to a promise that is
\* fulfilled with v, at once or by a script timer, returns in the end; what it
\* returns is (v exported, no error), and it returns only after the promise was
\* fulfilled.
C3_FulfilledReturns ==
  /\ [](\A t \in Threads :
          ret[t].returned /\ Fulfils(ret[t].src) =>
            /\ ret[t].settled = "fulfil"
            /\ ret[t].value = Export(ret[t].src.v)
            /\ ret[t].err = NoErr)
  /\ \A t \in Threads :
       (pc[t] = "await" /\ Fulfils(aw[t].src) /\ running) ~> ret[t].returned

\* a call on a promise a script timer fulfils returned the value
C3_Witness ==
  \E t \in Threads :
    /\ ret[t].returned
    /\ ret[t].src = Src("promise", "timer", "fulfil", "42")
    /\ ret[t].calledRunning
    /\ ret[t].value = "42"
    /\ ret[t].err = NoErr

\* C4: a call on a promise that is rejected, whatever the reason, returns a nil
\* value and a rejection error.
C4_RejectionIsAnError ==
  \A t \in Threads :
    ret[t].returned /\ Rejects(ret[t].src) =>
      ret[t].value = "nil" /\ ret[t].err.kind = "rejected"

\* C5: a call on a source that evaluates to a value that is no promise returns
\* the exported value and no error, starts no timer, and its first checkResult
\* finds __result.done set: checkResult is never handed to the loop again.
C5_ValueIsResolved ==
  \A t \in Threads :
    /\ aw[t].src.kind = "value" =>
         /\ aw[t].timers = 0
         /\ ~aw[t].rechecked
         /\ t \notin jsTimers
    /\ ret[t].returned /\ ret[t].src.kind = "value" =>
         /\ ret[t].value = Export(ret[t].src.v)
         /\ ret[t].err = NoErr
         /\ ret[t].timers = 0
         /\ ret[t].checked
         /\ ~ret[t].rechecked

\* a call on the falsy value 0 returned it
C5_Witness ==
  \E t \in Threads :
    /\ ret[t].returned
    /\ ret[t].src = Src("value", "na", "na", "0")
    /\ ret[t].value = "0"
    /\ ret[t].checked

\* C6: a call made while the loop is not running returns a usage error.
C6_NotRunningIsUsageError ==
  \A t \in Threads :
    ret[t].returned /\ ~ret[t].calledRunning => ret[t].err.kind = "usage"

\* C7: a call on a source that does not parse or that throws returns nil and
\* the error of the evaluation, and no checkResult closure is ever handed to the
\* loop for it.
C7_EvalErrorReturns ==
  \A t \in Threads :
    /\ aw[t].src.kind \in {"syntax", "throws"} =>
         ~aw[t].checked /\ QueuedFor(t, "awaitCheck") = {}
    /\ ret[t].returned /\ ret[t].src.kind \in {"syntax", "throws"} =>
         /\ ret[t].value = "nil"
         /\ ret[t].err = EvalErr(IF ret[t].src.kind = "syntax" THEN "syntax" ELSE "thrown")
         /\ ~ret[t].checked

\* a call on a source that throws returned the error
C7_Witness ==
  \E t \in Threads :
    /\ ret[t].returned
    /\ ret[t].src.kind = "throws"
    /\ ret[t].err = EvalErr("thrown")

LoopClosures == {c \in 1..Len(entry) : entry[c] = "loop"}

C9_Fifo ==
  \A a \in LoopClosures, b \in LoopClosures :
    a < b /\ runs[b] > 0 => a \in finished /\ ~(wpc = "user" /\ cur.c = a)

\* of two closures handed over before Start the first has finished and the
\* second is running
C9_Witness ==
  /\ Cardinality(LoopClosures) = 2
  /\ LoopClosures \subseteq preStart
  /\ 1 \in finished
  /\ wpc = "user"
  /\ cur.c = 2

\* C10: a closure handed to RunOnLoop never begins twice, and on a running loop
\* every closure handed over, before Start or after it, finishes in the end.
C10_ExactlyOnce ==
  /\ [](\A c \in LoopClosures : runs[c] <= 1)
  /\ \A c \in 1..MaxClosures :
       (c \in LoopClosures /\ running) ~> (c \in finished /\ runs[c] = 1)

\* a closure handed over before Start has run once
C10_Witness ==
  \E c \in LoopClosures : c \in preStart /\ c \in finished /\ runs[c] = 1

Timeouts == {c \in 1..Len(entry) : entry[c] = "timeout"}
Intervals == {c \in 1..Len(entry) : entry[c] = "interval"}
\* no cancellation of handle c waits in the loop's queue
ClearHandled(c) ==
  /\ \A i \in 1..Len(auxJobs) : ~(auxJobs[i].kind = "clear" /\ auxJobs[i].c = c)
  /\ \A i \in 1..Len(batch) : ~(batch[i].kind = "clear" /\ batch[i].c = c)

C12_OnceAfterDelay ==
  /\ [](\A c \in Timeouts : runs[c] <= 1 /\ (runs[c] > 0 => age[c] = delay[c]))
  /\ \A c \in 1..MaxClosures :
       (c \in Timeouts /\ running) ~> (c \in cleared \/ (c \in finished /\ runs[c] = 1))

\* a timeout of the longer delay, never cancelled, has run after its delay
C12_Witness ==
  \E c \in Timeouts :
    /\ delay[c] = 2
    /\ age[c] = 2
    /\ c \notin cleared
    /\ c \in finished
    /\ runs[c] = 1

\* C13: whatever the order of the expiry, the worker's receive and the calls of
\* ClearTimeout and ClearInterval on a handle, a timeout begins at most once, a
\* closure never begins after a cancellation took effect on its handle, a
\* timeout cancelled in effect never ran, and once the loop has handled the calls
\* on a handle the handle is not armed any more.
C13_ClearRace ==
  /\ \A c \in Timeouts : runs[c] <= 1 /\ (c \in stopped => runs[c] = 0)
  /\ lateRuns = {}
  /\ \A c \in cleared : ClearHandled(c) => c \notin goTimers

\* a timeout ran and was then cancelled twice, and the loop has handled both calls
C13_Witness ==
  \E c \in Timeouts :
    /\ runs[c] = 1
    /\ c \in finished
    /\ c \in recleared
    /\ c \notin stopped
    /\ ClearHandled(c)

\* C14: an interval begins for the first time not before one period has passed
\* since it was handed over and never after ClearInterval took effect on it; on
\* a running loop it begins again and again until ClearInterval is called.
C14_IntervalRepeats ==
  /\ [](\A c \in Intervals : (runs[c] > 0 => age[c] = delay[c]) /\ c \notin lateRuns)
  /\ \A c \in 1..MaxTimers :
       (c \in Intervals /\ running /\ ~(wpc = "user" /\ cur.c = c))
         ~> (c \in cleared \/ (wpc = "user" /\ cur.c = c))

\* an interval ran more than once and was cancelled in effect
C14_Witness ==
  \E c \in Intervals : runs[c] = 2 /\ c \in stopped /\ c \notin goTimers

\* no closure has begun since Stop returned
NoneSinceStop ==
  \A c \in 1..Len(runs) :
    runs[c] = IF c <= Len(halt.runsRet) THEN halt.runsRet[c] ELSE 0

\* C15, as claimed: when Stop returns, every closure that was queued and every
\* timer that was due when it was called has executed, no closure is queued and
\* no timer is due, and no closure begins afterwards.
C15_StopDrains ==
  halt.returned =>
    /\ \A c \in halt.pending : halt.runsRet[c] > halt.runs[c]
    /\ halt.left = {}
    /\ NoneSinceStop

\* C16, as amended: a closure handed over after Stop has returned is not
\* executed while the loop is not started again.
C16_NoneAfterStopReturned ==
  halt.returned /\ nStarts = 1 =>
    \A c \in 1..Len(runs) : c > Len(halt.runsRet) => runs[c] = 0

\* closures were handed over after Stop had returned, to RunOnLoop and to
\* SetTimeout, and wait
C16_Witness ==
  /\ halt.returned
  /\ nStarts = 1
  /\ \E c \in QueuedOf("user") : c > Len(halt.runsRet)
  /\ \E c \in QueuedOf("arm") : c > Len(halt.runsRet)

\* C16, as claimed: a closure handed over after Stop was called is never
\* executed.
C16_NoneAfterStopBegan ==
  halt.how = "Stop" => \A c \in 1..Len(runs) : c > halt.n => runs[c] = 0

\* C17, as claimed: a closure that was queued and a timer that was pending when
\* StopNoWait was called does not execute afterwards.
C17_AbortDiscards ==
  halt.how = "StopNoWait" => \A c \in halt.pending : runs[c] = halt.runs[c]

\* the value and the error RunString hands back for a source
ResultOf(src) == IF EvalSource(src).err = "none" THEN EvalSource(src).val ELSE "nil"
ErrOf(src) == EvalSource(src).err

C21_TimeoutAborts ==
  \A t \in Threads :
    call[t].out = "timeout" =>
      /\ runs[call[t].c] = call[t].begunThen
      /\ call[t].fired = call[t].firedThen

\* the threads inside SetGlobal's locked section, the goroutines inside setupVM's
Writers == {t \in Threads : pc[t] \in {"locked", "written"}}
Readers == IF wpc = "setup" THEN {owner} ELSE {}

\* C22: at most one thread is inside SetGlobal's locked section, none while the
\* worker is inside setupVM's, and no step takes a name out of the registry.
C22_RegistryLocked ==
  /\ [](Cardinality(Writers) <= 1 /\ (Writers # {} => Readers = {}))
  /\ [][\A n \in GlobalNames : globals[n] # Unset => globals'[n] # Unset]_vars

\* a thread has overwritten a registered value and still holds the lock, a second
\* thread has not got it, and the worker waits before a closure
C22_Witness ==
  /\ pc["h1"] = "written"
  /\ pc["h2"] = "idle"
  /\ vmGlobals["x"] # Unset
  /\ globals["x"] # vmGlobals["x"]
  /\ wpc = "batch" /\ batch # <<>> /\ Head(batch).kind = "user"

\* C23: a thread that is not inside a call can hand over a closure or a timer
\* and cancel a handle at once, whatever the worker does; it gets the registry's
\* lock at once when no goroutine holds it, and the worker does not hold it
\* while it runs a user closure.
C23_NeverBlocks ==
  \A t \in Threads :
    /\ pc[t] = "idle" /\ Len(entry) < MaxClosures =>
         /\ ENABLED RunOnLoop(t, Len(entry) + 1)
         /\ ENABLED SetTimeoutAfter(t, Len(entry) + 1, 1)
         /\ ENABLED SetIntervalAfter(t, Len(entry) + 1, 1)
    /\ \A c \in 1..Len(entry) :
         pc[t] = "idle" /\ c \notin cleared =>
           /\ entry[c] = "timeout" => ENABLED ClearTimeout(t, c)
           /\ entry[c] = "interval" => ENABLED ClearInterval(t, c)
    /\ pc[t] = "idle" /\ mu.w = {} /\ wpc = "user" => ENABLED SetGlobalLock(t)
    /\ pc[t] = "written" => ENABLED SetGlobalUnlock(t)

\* while the worker is inside a user closure, a thread has registered a value and
\* another can hand over a closure
C23_Witness ==
  /\ wpc = "user"
  /\ cur.kind = "user"
  /\ pc["h1"] = "written"
  /\ pc["h2"] = "idle"
  /\ vmGlobals["x"] # globals["x"]
  /\ Len(entry) < MaxClosures
  /\ ENABLED RunOnLoop("h2", Len(entry) + 1)

\* ------------------------------------------------------------ the Runner

bridgeVars == <<running, canRun, wakeupChan, auxJobs, batch, firstPass, wpc, cur, owner,
                jsTimers, goTimers, engineUsers, globals, vmGlobals, pc, gpc, aw, ret,
                entry, order, runs, finished, preStart, cleared, atBegin, nStarts,
                delay, left, age, jobChan, stopped, lateRuns, before, tied, recleared,
                halt, call, mu>>

\* the call that begins: the engine and the registry are remembered
Begun(op, r, name, given) ==
  [NoLast EXCEPT !.op = op, !.r = r, !.name = name, !.given = given,
                 !.vmBefore = rn.vm[r], !.regBefore = rn.reg[r],
                 !.heapBefore = rn.heap]

\* New: a Runner with a fresh engine and an empty registry
New(r) ==
  /\ r \notin rn.made
  /\ rn' = [rn EXCEPT !.made = @ \cup {r}]
  /\ UNCHANGED bridgeVars

\* a SetGlobal that records the value and leaves the engine alone
SetGlobalRecordOnly(r, n, g) ==
  /\ r \in rn.made
  /\ rn.ops < MaxOps
  /\ rn' = [rn EXCEPT !.reg[r][n] = g,
                      !.ops = @ + 1,
                      !.last = Begun("SetGlobal", r, n, <<g>>)]
  /\ UNCHANGED bridgeVars

\* Runner.SetGlobal: r.globals[name] = value; r.vm.Set(name, value)
RunnerSetGlobal(r, n, g) ==
  /\ r \in rn.made
  /\ rn.ops < MaxOps
  /\ rn' = [rn EXCEPT !.reg[r][n] = g,
                      !.vm[r][n] = ToValue(g),
                      !.ops = @ + 1,
                      !.last = Begun("SetGlobal", r, n, <<g>>)]
  /\ UNCHANGED bridgeVars

\* Runner.Eval of the expression that is the name n: the value of the global,
\* or the error that wraps the engine's ReferenceError and a nil value.
EvalName(r, n) ==
  /\ r \in rn.made
  /\ rn.ops < MaxOps
  /\ rn' = [rn EXCEPT
       !.ops = @ + 1,
       !.last = [Begun("Eval", r, n, <<>>) EXCEPT
                   !.err = IF rn.vm[r][n] = NotDeclared THEN "evaluate" ELSE "none",
                   !.cause = IF rn.vm[r][n] = NotDeclared THEN "thrown" ELSE "none",
                   !.val = rn.vm[r][n]]]
  /\ UNCHANGED bridgeVars

\* the Go primitives handed to SetGlobal
Int(n) == Val("int", <<0, n>>)
Str(bytes) == Val("string", bytes)
Primitives ==
  {Str(<<116>>), Str(<<>>), Int(42), Int(0), Val("int", MaxSafe),
   Val("int", <<MaxSafe[1], 1>>), Val("bool", <<1>>), Val("bool", <<0>>),
   Val("float", <<0, 3, 14>>), Val("float", <<0, 3, 0>>)}

\* SpecRegistry: a Runner is made, primitives are set as globals and read back.
NextRegistry ==
  \/ New("r1")
  \/ \E n \in {"x", "state"}, g \in Primitives : RunnerSetGlobal("r1", n, g)
  \/ \E n \in {"x", "state"} : EvalName("r1", n)

SpecRegistry == Init /\ [][NextRegistry]_vars

\* Eval has returned the global of a name that was set
ReadBack ==
  /\ rn.last.op = "Eval"
  /\ rn.reg[rn.last.r][rn.last.name] # NotDeclared

\* the value Eval returned exports to the primitive the registry holds
RoundTrips ==
  LET g == rn.reg[rn.last.r][rn.last.name]
  IN /\ rn.last.err = "none"
     /\ rn.last.val.t = JsTypeOf[g.t]
     /\ ExportAs(g.t, rn.last.val) = g.v

\* the integers every one of which is a float64
Safe(g) == g.t = "int" => g.v[1] < MaxSafe[1] \/ g.v = MaxSafe

\* C24, as claimed: after any SetGlobal calls, Eval of a name returns a value
\* that exports to the primitive the name was last set to.
C24_SetThenEval == ReadBack => RoundTrips

\* C24, as amended: the same for a string, a boolean, a float and an integer
\* of a magnitude up to 2^53.
C24_SetThenEvalSafe ==
  ReadBack /\ Safe(rn.reg[rn.last.r][rn.last.name]) => RoundTrips

\* a name was set to a string and then to the integer 2^53, and Eval returned
\* a number that exports to 2^53
C24_Witness ==
  /\ ReadBack
  /\ rn.last.regBefore[rn.last.name] = Val("int", MaxSafe)
  /\ rn.last.val = Val("number", <<MaxSafe[1], 0, 0>>)
  /\ rn.ops = 3

\* ------------------------------------------------------- scripts of a Runner

\* A source text is its statements.  set: n = v; def: function n() {...} that
\* does v; expr: the expression n; incr: state.Increment(); throw: throw new
\* Error(); broken: a statement that does not parse, as in "var x = ;".
Stmt(k, n, v) == [k |-> k, n |-> n, v |-> v]
Broken == Stmt("broken", "x", NotDeclared)
Throw == Stmt("throw", "x", NotDeclared)
Incr == Stmt("incr", "state", NotDeclared)
Expr(n) == Stmt("expr", n, NotDeclared)
Set(n, v) == Stmt("set", n, v)
\* what a function does: return its first argument, or throw
Returns == Val("function", <<1>>)
Throws == Val("function", <<2>>)
Def(n, v) == Stmt("def", n, v)

Malformed(src) == \E i \in 1..Len(src) : src[i].k = "broken"

\* the state of the engine during an execution: the global scope, the Go
\* object, the error thrown, the value of the last statement and the calls of
\* functions made
Engine(vm, heap) ==
  [vm |-> vm, heap |-> heap, err |-> "none", val |-> JsUndefined, calls |-> <<>>]

\* one statement executed
Exec(e, st) ==
  CASE st.k \in {"set", "def"} -> [e EXCEPT !.vm[st.n] = st.v, !.val = JsUndefined]
    [] st.k = "expr" ->
         IF e.vm[st.n] = NotDeclared THEN [e EXCEPT !.err = "thrown"]
         ELSE [e EXCEPT !.val = e.vm[st.n]]
    [] st.k = "incr" ->
         IF e.vm["state"].t = "goobject"
         THEN [e EXCEPT !.heap[e.vm["state"].v[1]] = @ + 1, !.val = JsUndefined]
         ELSE [e EXCEPT !.err = "thrown"]
    [] st.k = "throw" -> [e EXCEPT !.err = "thrown"]
    [] OTHER -> [e EXCEPT !.err = "syntax"]

\* the statements from the i-th on, until one throws
RECURSIVE RunProgram(_, _, _)
RunProgram(e, src, i) ==
  IF i > Len(src) \/ e.err # "none" THEN e
  ELSE RunProgram(Exec(e, src[i]), src, i + 1)

\* an engine that executes statement by statement, up to the one that does not
\* parse
RunStringStepwise(vm, heap, src) == RunProgram(Engine(vm, heap), src, 1)

\* goja Runtime.RunString: the whole source is compiled, and executed only if
\* it compiled.
RunString(vm, heap, src) ==
  IF Malformed(src) THEN [Engine(vm, heap) EXCEPT !.err = "syntax"]
  ELSE RunProgram(Engine(vm, heap), src, 1)

\* the Runner after a source was run by the call b
Ran(r, src, b, e, kind, returnsValue) ==
  [rn EXCEPT
     !.vm[r] = e.vm,
     !.heap = e.heap,
     !.ops = @ + 1,
     !.failed = IF Malformed(src) THEN @ \cup {r} ELSE @,
     !.last = [b EXCEPT !.malformed = Malformed(src),
                        !.err = IF e.err = "none" THEN "none" ELSE kind,
                        !.cause = e.err,
                        !.val = IF e.err = "none" /\ returnsValue THEN e.val
                                ELSE NotDeclared]]

\* Runner.LoadScriptString: RunString, the error wrapped as
\* "failed to execute script"
LoadScriptString(r, src) ==
  /\ r \in rn.made
  /\ rn.ops < MaxOps
  /\ rn' = Ran(r, src, Begun("LoadScriptString", r, "x", <<>>),
               RunString(rn.vm[r], rn.heap, src), "execute", FALSE)
  /\ UNCHANGED bridgeVars

\* Runner.Eval: RunString, the error wrapped as "failed to evaluate expression"
\* and a nil value with it
RunnerEval(r, src) ==
  /\ r \in rn.made
  /\ rn.ops < MaxOps
  /\ rn' = Ran(r, src, Begun("Eval", r, "x", <<>>),
               RunString(rn.vm[r], rn.heap, src), "evaluate", TRUE)
  /\ UNCHANGED bridgeVars

\* the files: one that holds a script, one that holds a malformed script; any
\* other path cannot be read
Files ==
  [ok |-> <<Set("x", ToValue(Int(1))), Def("f", Returns)>>,
   bad |-> <<Set("x", ToValue(Int(2))), Broken>>]
Paths == {"ok", "bad", "missing"}

\* a LoadScript that runs what it has read also when the file cannot be read
LoadScriptAnyway(r, path) ==
  /\ r \in rn.made
  /\ rn.ops < MaxOps
  /\ LET src == IF path \in DOMAIN Files THEN Files[path] ELSE <<Broken>>
     IN rn' = Ran(r, src, Begun("LoadScript", r, path, <<>>),
                  RunString(rn.vm[r], rn.heap, src), "execute", FALSE)
  /\ UNCHANGED bridgeVars

\* Runner.LoadScript: os.ReadFile, its error wrapped as "failed to read script
\* file" and returned; otherwise RunString of the content, its error wrapped as
\* "failed to execute script".
LoadScript(r, path) ==
  /\ r \in rn.made
  /\ rn.ops < MaxOps
  /\ IF path \notin DOMAIN Files
     THEN rn' = [rn EXCEPT !.ops = @ + 1,
                           !.last = [Begun("LoadScript", r, path, <<>>) EXCEPT
                                       !.err = "read", !.cause = "io"]]
     ELSE rn' = Ran(r, Files[path], Begun("LoadScript", r, path, <<>>),
                    RunString(rn.vm[r], rn.heap, Files[path]), "execute", FALSE)
  /\ UNCHANGED bridgeVars

\* the pointer to the Go object that the globals share
Pointer == Val("pointer", <<1>>)

Sources ==
  {<<Set("x", ToValue(Int(3)))>>,
   <<Set("x", ToValue(Int(4))), Throw>>,
   <<Set("x", ToValue(Int(5))), Broken>>,
   <<Broken>>,
   <<Incr, Broken>>,
   <<Incr, Expr("x")>>}

\* SpecLoad: a Runner is made, given the Go object, and scripts are loaded from
\* texts and files and expressions evaluated.
NextLoad ==
  \/ New("r1")
  \/ RunnerSetGlobal("r1", "state", Pointer)
  \/ \E src \in Sources : LoadScriptString("r1", src)
  \/ \E path \in Paths : LoadScript("r1", path)
  \/ \E src \in Sources : RunnerEval("r1", src)
  \/ EvalName("r1", "x")

SpecLoad == Init /\ [][NextLoad]_vars

\* the last call has left the engine, the Go object and the registry as they were
Untouched ==
  /\ rn.vm[rn.last.r] = rn.last.vmBefore
  /\ rn.reg[rn.last.r] = rn.last.regBefore
  /\ rn.heap = rn.last.heapBefore

\* C25: LoadScriptString, LoadScript and Eval of a malformed source return an
\* error and leave the engine as it was; the Runner is usable afterwards: Eval
\* of a well-formed expression that does not throw returns its value.
C25_MalformedRejected ==
  /\ rn.last.op \in {"LoadScriptString", "LoadScript", "Eval"} /\ rn.last.malformed
       => /\ rn.last.err \in {"execute", "evaluate"}
          /\ rn.last.val = NotDeclared
          /\ Untouched
  /\ (/\ rn.last.op = "Eval"
      /\ ~rn.last.malformed
      /\ rn.last.r \in rn.failed
      /\ rn.last.cause = "none")
       => rn.last.err = "none" /\ rn.last.val # NotDeclared

\* a script has bound x to 3, a malformed script that begins with an
\* assignment to x was refused, and x is 3
C25_Witness ==
  /\ rn.last.op \in {"LoadScriptString", "LoadScript"}
  /\ rn.last.malformed
  /\ rn.last.err = "execute"
  /\ rn.vm["r1"]["x"] = ToValue(Int(3))
  /\ rn.reg["r1"]["state"] = Pointer

\* C26: LoadScript of a file that cannot be read returns the read error, which
\* is not the execute error, and executes nothing.
C26_UnreadableFile ==
  rn.last.op = "LoadScript" /\ rn.last.name \notin DOMAIN Files
    => /\ rn.last.err = "read"
       /\ rn.last.cause = "io"
       /\ Untouched

\* the file that cannot be read was loaded into a Runner that holds a global
\* and a variable
C26_Witness ==
  /\ rn.last.op = "LoadScript"
  /\ rn.last.name = "missing"
  /\ rn.last.err = "read"
  /\ rn.reg["r1"]["state"] = Pointer
  /\ rn.vm["r1"]["x"] # NotDeclared

\* ------------------------------------------------------- Call of a Runner

\* A text is its bytes.  The bytes that the texts are made of:
Byte ==
  [DQuote |-> 34, SQuote |-> 39, BSlash |-> 92, NewLine |-> 10,
   Bell |-> 7, Space |-> 32, Comma |-> 44, Dot |-> 46,
   Colon |-> 58, Semicolon |-> 59, LParen |-> 40, RParen |-> 41,
   LBracket |-> 91, RBracket |-> 93, Digit0 |-> 48, LetterA |-> 97,
   LetterN |-> 110, LetterZ |-> 122]

\* the name of a global as a text
NameText ==
  [x |-> <<120>>, f |-> <<102>>, g |-> <<103>>, state |-> <<115, 116, 97, 116, 101>>]
TrueText == <<116, 114, 117, 101>>
FalseText == <<102, 97, 108, 115, 101>>
MapText == <<109, 97, 112>>

\* strconv.Quote, one byte: the Go escapes \" \\ \n \a, any other byte of the
\* alphabet as it is
QuoteByte(c) ==
  CASE c = Byte.DQuote -> <<Byte.BSlash, Byte.DQuote>>
    [] c = Byte.BSlash -> <<Byte.BSlash, Byte.BSlash>>
    [] c = Byte.NewLine -> <<Byte.BSlash, Byte.LetterN>>
    [] c = Byte.Bell -> <<Byte.BSlash, Byte.LetterA>>
    [] OTHER -> <<c>>

RECURSIVE QuoteBytes(_)
QuoteBytes(s) == IF s = <<>> THEN <<>> ELSE QuoteByte(Head(s)) \o QuoteBytes(Tail(s))

\* fmt.Sprintf("%q", v) of a string
Quote(s) == <<Byte.DQuote>> \o QuoteBytes(s) \o <<Byte.DQuote>>

\* the decimal digits of a natural number
RECURSIVE Digits(_)
Digits(n) == IF n < 10 THEN <<Byte.Digit0 + n>> ELSE Digits(n \div 10) \o <<Byte.Digit0 + (n % 10)>>

RECURSIVE Spaced(_)
Spaced(ns) ==
  IF ns = <<>> THEN <<>>
  ELSE IF Len(ns) = 1 THEN Digits(ns[1])
  ELSE Digits(ns[1]) \o <<Byte.Space>> \o Spaced(Tail(ns))

\* fmt.Sprintf("%v", v): an integer and a float in decimal, a boolean as true
\* or false, a slice as [1 2 3], a map as map[a:1]
FormatV(g) ==
  CASE g.t = "int" -> Digits(g.v[2])
    [] g.t = "float" ->
         Digits(g.v[2]) \o
           (IF g.v[3] = 0 THEN <<>>
            ELSE IF g.v[3] % 10 = 0 THEN <<Byte.Dot, Byte.Digit0 + (g.v[3] \div 10)>>
            ELSE <<Byte.Dot, Byte.Digit0 + (g.v[3] \div 10), Byte.Digit0 + (g.v[3] % 10)>>)
    [] g.t = "bool" -> IF g.v = <<1>> THEN TrueText ELSE FalseText
    [] g.t = "slice" -> <<Byte.LBracket>> \o Spaced(g.v) \o <<Byte.RBracket>>
    [] g.t = "map" ->
         MapText \o <<Byte.LBracket, g.v[1], Byte.Colon>> \o Digits(g.v[2]) \o <<Byte.RBracket>>
    [] OTHER -> g.v

\* Call, the switch on the type of the argument: %q of a string, %v of
\* anything else
FormatArg(g) == IF g.t = "string" THEN Quote(g.v) ELSE FormatV(g)

RECURSIVE JsArgs(_)
JsArgs(args) ==
  IF args = <<>> THEN <<>>
  ELSE IF Len(args) = 1 THEN FormatArg(args[1])
  ELSE FormatArg(args[1]) \o <<Byte.Comma, Byte.Space>> \o JsArgs(Tail(args))

\* fmt.Sprintf("%s(%s)", functionName, jsArgs)
CallScript(fn, args) == NameText[fn] \o <<Byte.LParen>> \o JsArgs(args) \o <<Byte.RParen>>

\* ---- the engine's reading of a text of calls

\* the byte at a position of a text, 0 behind its end
At(t, i) == IF i \in 1..Len(t) THEN t[i] ELSE 0
IsDigit(c) == c \in Byte.Digit0..(Byte.Digit0 + 9)
IsLetter(c) == c \in Byte.LetterA..Byte.LetterZ
Failed == [ok |-> FALSE, v |-> <<>>, pos |-> 0]
Scanned(v, pos) == [ok |-> TRUE, v |-> v, pos |-> pos]

RECURSIVE SkipSpace(_, _)
SkipSpace(t, i) == IF At(t, i) = Byte.Space THEN SkipSpace(t, i + 1) ELSE i

\* a string literal from behind its opening quote: \n is a line feed, a
\* backslash before any other byte of the alphabet stands for that byte; a line
\* feed itself and the end of the text end the literal with an error
RECURSIVE ScanString(_, _, _)
ScanString(t, i, acc) ==
  LET c == At(t, i)
  IN IF c = 0 \/ c = Byte.NewLine THEN Failed
     ELSE IF c = Byte.DQuote THEN Scanned(Val("string", acc), i + 1)
     ELSE IF c = Byte.BSlash
       THEN IF At(t, i + 1) = 0 THEN Failed
            ELSE ScanString(t, i + 2,
                   Append(acc, IF At(t, i + 1) = Byte.LetterN THEN Byte.NewLine ELSE At(t, i + 1)))
     ELSE ScanString(t, i + 1, Append(acc, c))

\* the digits from i on: their number, how many they are, and the position
\* behind them
RECURSIVE ScanDigits(_, _, _, _)
ScanDigits(t, i, n, k) ==
  IF IsDigit(At(t, i)) THEN ScanDigits(t, i + 1, 10 * n + (At(t, i) - Byte.Digit0), k + 1)
  ELSE [n |-> n, k |-> k, pos |-> i]

\* a number literal: digits, and a fraction of one or two digits
NumberWith(t, whole, frac) ==
  IF At(t, whole.pos) = Byte.Dot /\ frac.k \in {1, 2}
  THEN Scanned(Val("number", <<0, whole.n, IF frac.k = 1 THEN 10 * frac.n ELSE frac.n>>),
               frac.pos)
  ELSE IF At(t, whole.pos) = Byte.Dot THEN Failed
  ELSE Scanned(Val("number", <<0, whole.n, 0>>), whole.pos)

NumberOf(t, whole) == NumberWith(t, whole, ScanDigits(t, whole.pos + 1, 0, 0))

ScanNumber(t, i) == NumberOf(t, ScanDigits(t, i, 0, 0))

RECURSIVE ScanWord(_, _, _)
ScanWord(t, i, acc) ==
  IF IsLetter(At(t, i)) THEN ScanWord(t, i + 1, Append(acc, At(t, i)))
  ELSE Scanned(acc, i)

\* the elements of an array literal of integers from behind the bracket: e is
\* the element at j, k the position of what follows it
RECURSIVE ScanElements(_, _, _)
ElementsThen(t, acc, e, k) ==
  IF At(t, k) = Byte.Comma THEN ScanElements(t, k + 1, Append(acc, e.v.v[2]))
  ELSE IF At(t, k) = Byte.RBracket THEN Scanned(Val("array", Append(acc, e.v.v[2])), k + 1)
  ELSE Failed

ElementsWith(t, acc, e) ==
  IF ~e.ok THEN Failed
  ELSE IF e.v.v[3] # 0 THEN Failed
  ELSE ElementsThen(t, acc, e, SkipSpace(t, e.pos))

ElementsAt(t, j, acc) ==
  IF acc = <<>> /\ At(t, j) = Byte.RBracket THEN Scanned(Val("array", <<>>), j + 1)
  ELSE IF ~IsDigit(At(t, j)) THEN Failed
  ELSE ElementsWith(t, acc, ScanNumber(t, j))

ScanElements(t, i, acc) == ElementsAt(t, SkipSpace(t, i), acc)

\* true and false
WordValue(w) ==
  IF w.v = TrueText THEN Scanned(Val("boolean", <<1>>), w.pos)
  ELSE IF w.v = FalseText THEN Scanned(Val("boolean", <<0>>), w.pos)
  ELSE Failed

\* an expression: a string, a number, an array, true or false
ExprAt(t, j) ==
  CASE At(t, j) = Byte.DQuote -> ScanString(t, j + 1, <<>>)
    [] IsDigit(At(t, j)) -> ScanNumber(t, j)
    [] At(t, j) = Byte.LBracket -> ScanElements(t, j + 1, <<>>)
    [] OTHER -> WordValue(ScanWord(t, j, <<>>))

ScanExpr(t, i) == ExprAt(t, SkipSpace(t, i))

\* the arguments of a call from behind the parenthesis: e is the argument at
\* j, k the position of what follows it
RECURSIVE ScanArguments(_, _, _)
ArgumentsThen(t, acc, e, k) ==
  IF At(t, k) = Byte.Comma THEN ScanArguments(t, k + 1, Append(acc, e.v))
  ELSE IF At(t, k) = Byte.RParen THEN Scanned(Append(acc, e.v), k + 1)
  ELSE Failed

ArgumentsWith(t, acc, e) ==
  IF ~e.ok THEN Failed ELSE ArgumentsThen(t, acc, e, SkipSpace(t, e.pos))

ArgumentsAt(t, j, acc) ==
  IF acc = <<>> /\ At(t, j) = Byte.RParen THEN Scanned(<<>>, j + 1)
  ELSE ArgumentsWith(t, acc, ScanExpr(t, j))

ScanArguments(t, i, acc) == ArgumentsAt(t, SkipSpace(t, i), acc)

\* a call: a name w, and arguments a in parentheses
CallWith(w, a) ==
  IF ~a.ok THEN Failed ELSE Scanned([fn |-> w.v, args |-> a.v], a.pos)

CallNamed(t, w) ==
  IF w.v = <<>> \/ At(t, w.pos) # Byte.LParen THEN Failed
  ELSE CallWith(w, ScanArguments(t, w.pos + 1, <<>>))

ScanCall(t, i) == CallNamed(t, ScanWord(t, SkipSpace(t, i), <<>>))

\* a program: calls, with semicolons between them; c is the call at i, k the
\* position of what follows it
RECURSIVE ScanProgram(_, _, _)
ProgramThen(t, acc, c, k) ==
  IF At(t, k) = 0 THEN Scanned(Append(acc, c.v), k)
  ELSE IF At(t, k) # Byte.Semicolon THEN Failed
  ELSE IF At(t, SkipSpace(t, k + 1)) = 0 THEN Scanned(Append(acc, c.v), k)
  ELSE ScanProgram(t, k + 1, Append(acc, c.v))

ProgramWith(t, acc, c) ==
  IF ~c.ok THEN Failed ELSE ProgramThen(t, acc, c, SkipSpace(t, c.pos))

ScanProgram(t, i, acc) == ProgramWith(t, acc, ScanCall(t, i))

\* the global that a name in a text refers to
Named(vm, w) ==
  IF \E n \in JsNames : NameText[n] = w
  THEN vm[CHOOSE n \in JsNames : NameText[n] = w]
  ELSE NotDeclared

\* one call executed: the function of that name is invoked with the arguments
\* and returns its first argument, or it throws; a name that is no function
\* throws
Invoke(e, c) ==
  LET fn == Named(e.vm, c.fn)
  IN IF fn.t # "function" THEN [e EXCEPT !.err = "thrown"]
     ELSE IF fn = Throws THEN [e EXCEPT !.err = "thrown", !.calls = Append(@, c)]
     ELSE [e EXCEPT !.calls = Append(@, c),
                    !.val = IF c.args = <<>> THEN JsUndefined ELSE c.args[1]]

RECURSIVE RunCalls(_, _, _)
RunCalls(e, cs, i) ==
  IF i > Len(cs) \/ e.err # "none" THEN e
  ELSE RunCalls(Invoke(e, cs[i]), cs, i + 1)

\* goja Runtime.RunString of a text: compiled, and executed if it compiled
RunParsed(vm, heap, p) ==
  IF ~p.ok THEN [Engine(vm, heap) EXCEPT !.err = "syntax"]
  ELSE RunCalls(Engine(vm, heap), p.v, 1)

RunText(vm, heap, text) == RunParsed(vm, heap, ScanProgram(text, 1, <<>>))

\* Runner.Call: the script is built from the name and the formatted arguments
\* and run; an error is wrapped as "failed to call function" and returned with
\* a nil value.
\* a Call that wraps the error as LoadScriptString does
CalledAsLoaded(r, fn, args, e) ==
  [rn EXCEPT
     !.ops = @ + 1,
     !.last = [Begun("Call", r, fn, args) EXCEPT
                 !.err = IF e.err = "none" THEN "none" ELSE "execute",
                 !.cause = e.err,
                 !.val = IF e.err = "none" THEN e.val ELSE NotDeclared,
                 !.calls = e.calls]]

\* the Runner after the script of a call was run with the outcome e
Called(r, fn, args, e) ==
  [rn EXCEPT
     !.ops = @ + 1,
     !.last = [Begun("Call", r, fn, args) EXCEPT
                 !.err = IF e.err = "none" THEN "none" ELSE "call",
                 !.cause = e.err,
                 !.val = IF e.err = "none" THEN e.val ELSE NotDeclared,
                 !.calls = e.calls]]

Call(r, fn, args) ==
  /\ r \in rn.made
  /\ rn.ops < MaxOps
  /\ rn' = Called(r, fn, args, RunText(rn.vm[r], rn.heap, CallScript(fn, args)))
  /\ UNCHANGED bridgeVars

\* the scripts that define the functions
Definitions ==
  {<<Def("f", Returns)>>, <<Def("g", Throws)>>, <<Set("x", ToValue(Int(1)))>>}

\* the strings of up to two bytes
Alphabet == {Byte.LetterA, Byte.DQuote, Byte.SQuote, Byte.BSlash, Byte.NewLine, Byte.Bell}
Strings ==
  {Str(<<>>)} \cup {Str(<<a>>) : a \in Alphabet}
    \cup {Str(<<a, b>>) : a \in Alphabet, b \in Alphabet}

Slice(ns) == Val("slice", ns)
GoMap(k, n) == Val("map", <<k, n>>)

\* the arguments of a call
Arguments ==
  {<<>>} \cup {<<s>> : s \in Strings}
    \cup {<<Int(42)>>, <<Val("float", <<0, 3, 14>>)>>, <<Val("bool", <<1>>)>>,
          <<Val("bool", <<0>>)>>, <<Slice(<<>>)>>, <<Slice(<<1>>)>>,
          <<Slice(<<1, 2, 3>>)>>, <<GoMap(Byte.LetterA, 1)>>,
          <<Str(<<116>>), Int(42), Val("float", <<0, 3, 14>>), Val("bool", <<1>>)>>}

\* SpecCall: a Runner is made, functions are defined and called.
NextCall ==
  \/ New("r1")
  \/ \E src \in Definitions : LoadScriptString("r1", src)
  \/ \E fn \in {"f", "g", "x"}, args \in Arguments : Call("r1", fn, args)

SpecCall == Init /\ [][NextCall]_vars

\* the function that the last call names, as it was when the call was made
Callee == rn.last.vmBefore[rn.last.name]

Convertible(args) ==
  \A i \in 1..Len(args) :
    \/ args[i].t \in {"string", "int", "float", "bool"}
    \/ args[i].t = "slice" /\ Len(args[i].v) <= 1

C28_StringArrives ==
  (/\ rn.last.op = "Call"
   /\ Callee.t = "function"
   /\ Len(rn.last.given) = 1
   /\ rn.last.given[1].t = "string")
    => /\ Len(rn.last.calls) = 1
       /\ rn.last.calls[1].fn = NameText[rn.last.name]
       /\ rn.last.calls[1].args = <<Val("string", rn.last.given[1].v)>>

\* C29, as claimed: the function receives each argument of Call as a value of
\* the matching JavaScript type: a string, a number, a boolean, an array with
\* the elements of the slice, an object with the entries of the map.
C29_ArgumentTypes ==
  rn.last.op = "Call" /\ Callee.t = "function"
    => /\ Len(rn.last.calls) = 1
       /\ Len(rn.last.calls[1].args) = Len(rn.last.given)
       /\ \A i \in 1..Len(rn.last.given) :
            /\ rn.last.calls[1].args[i].t = JsTypeOf[rn.last.given[i].t]
            /\ rn.last.given[i].t \in {"slice", "map"}
                 => rn.last.calls[1].args[i].v = rn.last.given[i].v

\* ------------------------------------------------------------ two Runners

\* the globals map that the Runners are made from: a string and the pointer to
\* a Go object
SharedGlobals == [x |-> Str(<<107>>), state |-> Pointer]

\* a NewWithGlobals that hands the second Runner a copy of the Go object
NewWithGlobalsCopied(r, g) ==
  /\ r \notin rn.made
  /\ rn' = [rn EXCEPT
       !.made = @ \cup {r},
       !.reg[r] = [n \in JsNames |-> IF n \in DOMAIN g THEN g[n] ELSE @[n]],
       !.vm[r] = [n \in JsNames |->
                    IF n \notin DOMAIN g THEN @[n]
                    ELSE IF g[n] = Pointer /\ rn.made # {}
                      THEN ToValue(Val("pointer", <<2>>))
                    ELSE ToValue(g[n])]]
  /\ UNCHANGED bridgeVars

\* NewWithGlobals: New, and SetGlobal of every entry of the map
NewWithGlobals(r, g) ==
  /\ r \notin rn.made
  /\ rn' = [rn EXCEPT
       !.made = @ \cup {r},
       !.reg[r] = [n \in JsNames |-> IF n \in DOMAIN g THEN g[n] ELSE @[n]],
       !.vm[r] = [n \in JsNames |-> IF n \in DOMAIN g THEN ToValue(g[n]) ELSE @[n]]]
  /\ UNCHANGED bridgeVars

SharedSources ==
  {<<Set("x", ToValue(Int(3))), Incr>>,
   <<Set("x", ToValue(Int(4))), Incr>>,
   <<Def("f", Returns)>>,
   <<Incr, Broken>>}

\* SpecShared: two Runners are made from the same globals map, or one of them
\* without globals; scripts are loaded into either, globals set and read.
NextShared ==
  \/ \E r \in Runners : NewWithGlobals(r, SharedGlobals)
  \/ New("r2")
  \/ \E r \in Runners, src \in SharedSources : LoadScriptString(r, src)
  \/ \E r \in Runners : RunnerSetGlobal(r, "f", Int(42))
  \/ \E r \in Runners, n \in {"x", "f"} : EvalName(r, n)

SpecShared == Init /\ [][NextShared]_vars

\* the counter of the Go object that a Runner made from the globals sees
Seen(r) == rn.heap[rn.vm[r]["state"].v[1]]

\* the Runner that a step makes or calls
Acted == IF rn'.made # rn.made THEN rn'.made \ rn.made ELSE {rn'.last.r}

\* a step on one Runner leaves the engine and the registry of the other alone
Isolated ==
  \A r \in rn.made \ Acted : rn'.vm[r] = rn.vm[r] /\ rn'.reg[r] = rn.reg[r]

\* C30: two Runners, also when made from the same globals map, have engines of
\* their own: what a call changes in one is not changed in the other; the Go
\* object that the map points to is one object, seen from both.
C30_IsolatedEngines ==
  /\ [][Isolated]_vars
  /\ [](\A r1, r2 \in rn.made :
          rn.reg[r1]["state"] = Pointer /\ rn.reg[r2]["state"] = Pointer
            => /\ rn.vm[r1]["state"] = rn.vm[r2]["state"]
               /\ Seen(r1) = Seen(r2))

\* both Runners were made from the same map, each has run a script that
\* assigns x and increments the counter of the Go object: x is 3 in one and 4
\* in the other, and the counter both see is 2
C30_Witness ==
  /\ rn.made = Runners
  /\ rn.reg["r1"] = rn.reg["r2"]
  /\ rn.vm["r1"]["x"] = ToValue(Int(3))
  /\ rn.vm["r2"]["x"] = ToValue(Int(4))
  /\ Seen("r1") = 2
  /\ Seen("r2") = 2

\* --------------------------------------- Runners that share a host-side counter

\* the Go function increment of the globals map: it locks the counter's mutex,
\* adds one to the value and unlocks
Increment == Val("func", <<3>>)
CounterGlobals == [f |-> Increment]

\* Runner.Eval("increment()") by the thread of Runner r: the engine of r calls
\* the Go function
EvalIncrement(r) ==
  /\ r \in rn.made
  /\ rn.vm[r]["f"] = ToValue(Increment)
  /\ rn.host.at[r] = "idle"
  /\ rn.host.did[r] < MaxIncrements
  /\ rn' = [rn EXCEPT !.host.at[r] = "call"]
  /\ UNCHANGED bridgeVars

\* an increment that does not take the mutex
IncrementUnlocked(r) ==
  /\ rn.host.at[r] = "call"
  /\ rn' = [rn EXCEPT !.host.at[r] = "locked"]
  /\ UNCHANGED bridgeVars

\* counter.mu.Lock()
IncrementLock(r) ==
  /\ rn.host.at[r] = "call"
  /\ rn.host.mu = {}
  /\ rn' = [rn EXCEPT !.host.mu = {r}, !.host.at[r] = "locked"]
  /\ UNCHANGED bridgeVars

\* counter.value++, the read
IncrementRead(r) ==
  /\ rn.host.at[r] = "locked"
  /\ rn' = [rn EXCEPT !.host.tmp[r] = rn.host.value, !.host.at[r] = "read"]
  /\ UNCHANGED bridgeVars

\* counter.value++, the write
IncrementWrite(r) ==
  /\ rn.host.at[r] = "read"
  /\ rn' = [rn EXCEPT !.host.value = rn.host.tmp[r] + 1, !.host.at[r] = "written"]
  /\ UNCHANGED bridgeVars

\* the deferred counter.mu.Unlock(), and Eval returns
IncrementUnlock(r) ==
  /\ rn.host.at[r] = "written"
  /\ rn' = [rn EXCEPT !.host.mu = @ \ {r},
                      !.host.at[r] = "idle",
                      !.host.did[r] = @ + 1]
  /\ UNCHANGED bridgeVars

\* SpecCounter: every Runner is made from the globals map by its own thread and
\* evaluates increment() up to MaxIncrements times.
NextCounter ==
  \/ \E r \in Runners : NewWithGlobals(r, CounterGlobals)
  \/ \E r \in Runners : EvalIncrement(r)
  \/ \E r \in Runners : IncrementLock(r)
  \/ \E r \in Runners : IncrementRead(r)
  \/ \E r \in Runners : IncrementWrite(r)
  \/ \E r \in Runners : IncrementUnlock(r)

SpecCounter == Init /\ [][NextCounter]_vars

\* C31: whenever no increment is under way the counter is the number of
\* increments the Runners have made; when each of the N Runners has made its M
\* increments it is N * M.
C31_NoLostUpdate ==
  /\ (\A r \in Runners : rn.host.at[r] = "idle")
       => rn.host.value = rn.host.did["r1"] + rn.host.did["r2"]
  /\ (\A r \in Runners : rn.host.did[r] = MaxIncrements)
       => rn.host.value = Cardinality(Runners) * MaxIncrements

\* both Runners have made two increments each, and the counter is 4
C31_Witness ==
  /\ rn.made = Runners
  /\ rn.host.did["r1"] = 2
  /\ rn.host.did["r2"] = 2
  /\ rn.host.at = [r \in Runners |-> "idle"]
  /\ rn.host.value = 4

\* -------------------------------------------------- AwaitPromise, its signal

\* C32: done of a call is closed at most once, and only by the closure that
\* found the evaluation failed or __result.done set; once it is closed, and
\* after the call has returned, no checkResult closure of the call is in the
\* loop's queue or is handed to it.
C32_DoneClosedOnce ==
  \A t \in Threads :
    /\ aw[t].closes <= 1
    /\ aw[t].doneClosed <=> aw[t].closes = 1
    /\ wpc = "close" /\ cur.t = t => ~aw[t].doneClosed /\ QueuedFor(t, "awaitCheck") = {}
    /\ aw[t].doneClosed \/ ret[t].returned =>
         QueuedFor(t, "awaitCheck") = {} /\ QueuedFor(t, "awaitEval") = {}
    /\ aw[t].doneClosed => aw[t].written

\* done of a call on a promise that a script timer settles was closed, after
\* checkResult had been handed to the loop again, while the other thread's call
\* is waiting
C32_Witness ==
  \E t \in Threads :
    /\ aw[t].doneClosed
    /\ aw[t].closes = 1
    /\ aw[t].src.settle = "timer"
    /\ aw[t].rechecked
    /\ pc[t] = "await"
    /\ \E u \in Threads \ {t} : pc[u] = "await" /\ ~aw[u].doneClosed

\* ------------------------------------------- AwaitPromise on a loop that stops

\* the sources whose value is there at once or after a script timer
SettlingSources == {src \in CoreSources : src.kind # "promise" \/ src.settle # "never"}

\* SpecAwaitStop: one thread awaits a source that settles, on a loop that is
\* running and was not told to stop; the other stops the loop, with Stop or with
\* StopNoWait.
NextAwaitStop ==
  \/ Start("h1")
  \/ running /\ canRun /\ \E src \in SettlingSources : AwaitPromise("h2", src)
  \/ Stop("h1")
  \/ StopReturn("h1")
  \/ StopNoWait("h1")
  \/ Loop
  \/ AwaitEval \/ AwaitCheck \/ CloseDone
  \/ AwaitReturn("h2")
  \/ AfterJob
  \/ TimerFire("h2")

SpecAwaitStop == Init /\ [][NextAwaitStop]_vars

\* the worker is scheduled as long as it is in run(), a due script timer is
\* taken in the end, and the awaiting thread goes on once done is closed
FairAwaitStop ==
  /\ SpecAwaitStop
  /\ WF_vars(Loop \/ AwaitEval \/ AwaitCheck \/ CloseDone \/ AfterJob)
  /\ SF_vars(TimerFire("h2"))
  /\ WF_vars(AwaitReturn("h2"))
  /\ WF_vars(StopReturn("h1"))

\* C33: a call of AwaitPromise returns in the end, also when the loop is told
\* to stop while the call waits.
C33_AwaitReturns == (pc["h2"] = "await") ~> ret["h2"].returned

\* ------------------------------------------------ AwaitPromise, its polling

\* the closures of thread t's AwaitPromise that wait in the loop's queue, counted
PendingFor(t) ==
  Cardinality({i \in 1..Len(auxJobs) : auxJobs[i].t = t})
  + Cardinality({i \in 1..Len(batch) : batch[i].t = t})

\* C34: of a call of AwaitPromise at most one closure waits in the loop's queue
\* at any time, the evaluation or one checkResult, and only while the call
\* waits; the queue holds no more closures than there are waiting calls.
C34_OnePendingCheck ==
  /\ \A t \in Threads :
       /\ PendingFor(t) <= 1
       /\ PendingFor(t) = 1 => pc[t] = "await" /\ ~aw[t].doneClosed
  /\ Len(auxJobs) + Len(batch) <= Cardinality({t \in Threads : pc[t] = "await"})

\* both threads wait on promises that are not settled, each has polled more
\* than once and each has one checkResult in the queue
C34_Witness ==
  \A t \in Threads :
    /\ pc[t] = "await"
    /\ aw[t].rechecked
    /\ ~ToBoolean(aw[t].obj.done)
    /\ PendingFor(t) = 1

\* --------------------------------------------- AwaitPromise beside other work

\* a promise that is never settled and one that a script timer fulfils
PollSources == {Src("promise", "never", "na", Undefined), Src("promise", "timer", "fulfil", "42")}

\* SpecPoll: one thread awaits a promise on the running loop while the other
\* hands closures and timeouts to the loop.
NextPoll ==
  \/ Start("h1")
  \/ running /\ \E src \in PollSources : AwaitPromise("h1", src)
  \/ running /\ \E c \in 1..MaxClosures : RunOnLoop("h2", c)
  \/ running /\ \E c \in 1..MaxClosures : SetTimeout("h2", c)
  \/ Loop
  \/ AwaitEval \/ AwaitCheck \/ CloseDone
  \/ AwaitReturn("h1")
  \/ AfterJob
  \/ ArmTimer
  \/ UserBegin
  \/ UserEnd("none")
  \/ \E c \in 1..MaxClosures : GoTimerFire(c)
  \/ TimerFire("h1")

SpecPoll == Init /\ [][NextPoll]_vars

\* The worker goroutine is scheduled and a user closure returns; a timer becomes
\* due and its job sits in jobChan beside the wake-up token, and the worker's
\* select picks among the ready channels at random, so the job is taken in the
\* end.
FairPoll ==
  /\ SpecPoll
  /\ WF_vars(Loop \/ AwaitEval \/ AwaitCheck \/ CloseDone \/ AfterJob \/ ArmTimer
               \/ UserBegin \/ UserEnd("none"))
  /\ \A c \in 1..MaxClosures : SF_vars(GoTimerFire(c))
  /\ SF_vars(TimerFire("h1"))
  /\ WF_vars(AwaitReturn("h1"))

\* thread t's AwaitPromise has looked at __result and the promise is not settled
Polling(t) == pc[t] = "await" /\ aw[t].checked /\ ~ToBoolean(aw[t].obj.done)

\* C35: while AwaitPromise polls an unsettled promise, a closure handed to
\* RunOnLoop by another thread and the closure of a timeout set by another
\* thread finish in the end.
C35_PollingYields ==
  \A c \in 1..MaxClosures :
    (Polling("h1") /\ c \in 1..Len(entry)) ~> (c \in finished)

\* AwaitPromise polls a promise that is never settled, and a closure and a
\* timeout that were handed over since have finished
C35_Witness ==
  /\ Polling("h1")
  /\ aw["h1"].src.settle = "never"
  /\ aw["h1"].rechecked
  /\ \E a \in 1..Len(entry), b \in 1..Len(entry) :
       /\ entry[a] = "loop" /\ entry[b] = "timeout"
       /\ {a, b} \subseteq finished

\* ------------------------------------------------ AwaitPromise, several calls

\* what checkResult makes of a __result whose done is set
Outcome(obj) ==
  IF ~IsUndefined(obj.error) /\ ~IsNull(obj.error)
  THEN [value |-> "nil", err |-> RejectionErr(obj.error)]
  ELSE [value |-> Export(obj.value), err |-> NoErr]

\* what a call of AwaitPromise on src returns when no other call is made
Alone(src) ==
  LET r == RunWrapped(src) IN
  IF EvalFailed(r) THEN [value |-> "nil", err |-> r.err]
  ELSE IF r.settled = "pending" THEN Outcome(Settle(r.obj, src))
  ELSE Outcome(r.obj)

\* C36: of calls of AwaitPromise made by several threads each returns what it
\* would return alone: the value or the rejection of its own promise.
C36_OwnOutcome ==
  \A t \in Threads :
    /\ aw[t].doneClosed =>
         [value |-> aw[t].resolvedValue, err |-> aw[t].promiseErr] = Alone(aw[t].src)
    /\ ret[t].returned =>
         [value |-> ret[t].value, err |-> ret[t].err] = Alone(ret[t].src)

\* one thread has got the value of its promise and the other is about to get
\* the rejection of its own, both promises settled by script timers while both
\* calls polled
C36_Witness ==
  /\ ret["h1"].returned
  /\ ret["h1"].src = Src("promise", "timer", "fulfil", "42")
  /\ ret["h1"].value = "42"
  /\ ret["h1"].rechecked
  /\ pc["h2"] = "await"
  /\ aw["h2"].doneClosed
  /\ aw["h2"].rechecked
  /\ aw["h2"].src = Src("promise", "timer", "reject", "boom")
  /\ aw["h2"].promiseErr = RejectionErr("boom")

\* ------------------------------------- SetGlobal called from a closure's code

\* a user closure on the loop calls SetGlobal, r.mu.Lock(): the worker goes on
\* when no goroutine holds the lock, to write or to read.
UserSetGlobalLock ==
  /\ wpc = "user"
  /\ cur.kind = "user"
  /\ mu = Unlocked
  /\ mu' = [mu EXCEPT !.w = {owner}]
  /\ wpc' = "userLocked"
  /\ UNCHANGED <<rn, halt, call, clockVars, timerHist, stateVars, queueVars, batch, firstPass,
                 cur, owner, timerVars, vmVars, globals, histVars, pc, gpc, aw, ret>>

\* r.globals[name] = value, on the worker
UserSetGlobalWrite(n, v) ==
  /\ wpc = "userLocked"
  /\ globals' = [globals EXCEPT ![n] = v]
  /\ wpc' = "userWritten"
  /\ UNCHANGED <<mu, rn, halt, call, clockVars, timerHist, stateVars, queueVars, batch,
                 firstPass, cur, owner, timerVars, vmVars, histVars, pc, gpc, aw, ret>>

\* the deferred r.mu.Unlock(), on the worker; the closure goes on
UserSetGlobalUnlock ==
  /\ wpc = "userWritten"
  /\ mu' = [mu EXCEPT !.w = @ \ {owner}]
  /\ wpc' = "user"
  /\ UNCHANGED <<rn, halt, call, clockVars, timerHist, stateVars, queueVars, batch, firstPass,
                 cur, owner, timerVars, vmVars, globals, histVars, pc, gpc, aw, ret>>

\* SpecReentry: threads register values and hand closures to a started loop;
\* the closures register values themselves.
NextReentry ==
  \/ Start("h1")
  \/ \E t \in Threads : SetGlobalLock(t)
  \/ \E t \in Threads, v \in HostValues : SetGlobalWrite(t, "x", v)
  \/ \E t \in Threads : SetGlobalUnlock(t)
  \/ \E t \in Threads, c \in 1..MaxClosures : RunOnLoop(t, c)
  \/ Loop
  \/ SetupLock
  \/ SetupBegin
  \/ UserSetGlobalLock
  \/ \E v \in HostValues : UserSetGlobalWrite("x", v)
  \/ UserSetGlobalUnlock
  \/ UserEnd("none")

SpecReentry == Init /\ [][NextReentry]_vars

\* the worker is inside a user closure, or inside a SetGlobal the closure called
InClosure == wpc \in {"user", "userLocked", "userWritten"}

\* C37: the worker holds the registry's read lock only inside setupVM, not
\* inside the user closure; a closure that calls SetGlobal gets the lock as soon
\* as no thread is inside SetGlobal, and a thread that calls SetGlobal while a
\* closure runs gets it as soon as no other caller is inside SetGlobal; who holds
\* the lock can go on and give it back.
C37_NoSelfDeadlock ==
  /\ mu.r # {} => wpc = "setup" /\ mu.r = {owner}
  /\ InClosure => mu.r = {}
  /\ wpc = "user" /\ cur.kind = "user" /\ mu.w = {} => ENABLED UserSetGlobalLock
  /\ wpc = "userLocked" => mu.w = {owner} /\ ENABLED UserSetGlobalWrite("x", "v1")
  /\ wpc = "userWritten" => mu.w = {owner} /\ ENABLED UserSetGlobalUnlock
  /\ \A t \in Threads :
       /\ pc[t] = "idle" /\ InClosure /\ mu.w = {} => ENABLED SetGlobalLock(t)
       /\ pc[t] = "locked" => mu.w = {t} /\ ENABLED SetGlobalWrite(t, "x", "v1")
       /\ pc[t] = "written" => mu.w = {t} /\ ENABLED SetGlobalUnlock(t)

\* a closure on the loop has registered a value and gone on, and a thread has
\* got the lock while the closure runs
C37_Witness ==
  /\ wpc = "user"
  /\ cur.kind = "user"
  /\ globals["x"] = "v2"
  /\ vmGlobals["x"] = "v1"
  /\ pc["h1"] = "locked"
  /\ mu.w = {"h1"}

\* ------------------------------------------------- one call after another

\* SpecAgain: one thread calls Run, RunAsync and RunAsyncWithTimeout one after
\* the other on a runner that was never started, each call returning before the
\* next and RunAsyncWithTimeout before its deadline, and then starts the loop;
\* the scripts assign the variable x, which is not registered.
NextAgain ==
  \/ \E c \in 1..MaxClosures : Run("h1", c)
  \/ \E c \in 1..MaxClosures, src \in RunSources : RunAsyncOf("h1", c, src)
  \/ \E c \in 1..MaxClosures, src \in RunSources : RunAsyncWithTimeoutOf("h1", c, src)
  \/ GoRun("h1")
  \/ RawtDone("h1")
  \/ Start("h1")
  \/ ScriptTimerFire("h1")
  \/ RunAux \/ BatchDone \/ AfterJob
  \/ \E n \in {"none", "x"} : UserEnd(n)

SpecAgain == Init /\ [][NextAgain]_vars

\* thread t is not inside a call and the loop was not started
Between(t) == pc[t] = "idle" /\ gpc[t].st = "none" /\ nStarts = 0

\* C38: when Run, RunAsync or a RunAsyncWithTimeout that kept its deadline has
\* returned, the loop is not running, and the next Run, RunAsync or
\* RunAsyncWithTimeout, or Start, can be made; what a script has assigned to a
\* variable stays in the engine from call to call.
C38_Reusable ==
  /\ [](Between("h1") =>
          /\ ~running
          /\ wpc = "off"
          /\ engineUsers = {}
          /\ Len(entry) < MaxClosures =>
               /\ ENABLED Run("h1", Len(entry) + 1)
               /\ \A src \in RunSources :
                    /\ ENABLED RunAsyncOf("h1", Len(entry) + 1, src)
                    /\ ENABLED RunAsyncWithTimeoutOf("h1", Len(entry) + 1, src)
          /\ ENABLED Start("h1"))
  /\ [][vmGlobals["x"] = ScriptValue => vmGlobals'["x"] = ScriptValue]_vars

\* a second call runs its closure, after a RunAsyncWithTimeout that returned the
\* value of its source, and finds the variable the first call's script assigned
C38_Witness ==
  /\ Len(entry) = 2
  /\ entry[1] = "rawt"
  /\ 1 \in finished
  /\ wpc = "user"
  /\ cur.c = 2
  /\ entry[2] \in {"run", "runAsync"}
  /\ vmGlobals["x"] = ScriptValue
  /\ 2 \notin finished

\* ------------------------------------------------------------ ReactApp.Render

Props == {"p1", "p2"}
\* what renderApp makes of props
RenderApp(p) == <<"html", p>>

\* a Render that does not take ra.mu
RenderUnlocked(t, p) ==
  /\ rn.app.at[t] = "idle"
  /\ rn.app.n < MaxOps
  /\ rn' = [rn EXCEPT !.app.at[t] = "locked",
                      !.app.props[t] = p,
                      !.app.n = @ + 1]
  /\ UNCHANGED bridgeVars

\* ReactApp.Render, ra.mu.Lock(): the caller goes on when no thread holds it.
RenderLock(t, p) ==
  /\ rn.app.at[t] = "idle"
  /\ rn.app.n < MaxOps
  /\ rn.app.mu = {}
  /\ rn' = [rn EXCEPT !.app.mu = {t},
                      !.app.at[t] = "locked",
                      !.app.props[t] = p,
                      !.app.n = @ + 1]
  /\ UNCHANGED bridgeVars

\* ra.runner.SetGlobal("SERVER_PROPS", props)
RenderSetGlobal(t) ==
  /\ rn.app.at[t] = "locked"
  /\ rn' = [rn EXCEPT !.app.serverProps = rn.app.props[t],
                      !.app.at[t] = "set"]
  /\ UNCHANGED bridgeVars

\* ra.runner.Eval("renderApp(SERVER_PROPS)"): the script reads the global.
RenderEval(t) ==
  /\ rn.app.at[t] = "set"
  /\ rn' = [rn EXCEPT !.app.markup[t] = RenderApp(rn.app.serverProps),
                      !.app.at[t] = "evaluated"]
  /\ UNCHANGED bridgeVars

\* return ExportString(markup), nil, and the deferred ra.mu.Unlock()
RenderReturn(t) ==
  /\ rn.app.at[t] = "evaluated"
  /\ rn' = [rn EXCEPT !.app.mu = @ \ {t},
                      !.app.at[t] = "idle",
                      !.app.out[t] = [props |-> rn.app.props[t], html |-> rn.app.markup[t]]]
  /\ UNCHANGED bridgeVars

\* SpecRender: two threads call Render of one ReactApp, with props of their own
\* choice.
NextRender ==
  \/ \E t \in Threads, p \in Props : RenderLock(t, p)
  \/ \E t \in Threads : RenderSetGlobal(t)
  \/ \E t \in Threads : RenderEval(t)
  \/ \E t \in Threads : RenderReturn(t)

SpecRender == Init /\ [][NextRender]_vars

\* the threads between Lock and Unlock of ra.mu
Rendering == {t \in Threads : rn.app.at[t] # "idle"}

\* C39: at most one thread is between setting SERVER_PROPS and the end of the
\* evaluation, the global holds that thread's props from the one to the other,
\* and every Render returns the markup of the props it was given.
C39_RenderAtomic ==
  /\ Cardinality(Rendering) <= 1
  /\ Rendering = rn.app.mu
  /\ \A t \in Threads :
       /\ rn.app.at[t] \in {"set", "evaluated"} => rn.app.serverProps = rn.app.props[t]
       /\ rn.app.at[t] = "evaluated" => rn.app.markup[t] = RenderApp(rn.app.props[t])
       /\ rn.app.out[t].props # "none" => rn.app.out[t].html = RenderApp(rn.app.out[t].props)

\* a thread has rendered its props and returned; the other, which was given
\* other props, has set the global and is about to evaluate
C39_Witness ==
  /\ rn.app.out["h1"] = [props |-> "p1", html |-> RenderApp("p1")]
  /\ rn.app.at["h1"] = "idle"
  /\ rn.app.at["h2"] = "set"
  /\ rn.app.props["h2"] = "p2"
  /\ rn.app.serverProps = "p2"

\* ------------------------------------------- the bundler's remote resolver

\* the body the server sends for a URL
Body(u) == <<"js", u>>

\* what a request ends in: a body, a status of 400 or more, a transport error
Responses == {"ok", "status", "error"}

\* remoteResolver.Plugin, the OnLoad callback up to the request: r.cache.Load;
\* a cached text is returned, otherwise the callback goes on to fetch.  The
\* bundler calls it, for the server build and then the client build, as long as
\* no callback has returned an error.
OnLoad(k, u) ==
  /\ rn.resolver.at[k] = "idle"
  /\ ~rn.resolver.failed
  /\ rn.resolver.n < MaxOps
  /\ IF rn.resolver.cache[u] # <<>>
     THEN rn' = [rn EXCEPT !.resolver.n = @ + 1,
                           !.resolver.out[k] =
                              [path |-> u, text |-> rn.resolver.cache[u], cached |-> TRUE]]
     ELSE rn' = [rn EXCEPT !.resolver.n = @ + 1,
                           !.resolver.path[k] = u,
                           !.resolver.at[k] = "get"]
  /\ UNCHANGED bridgeVars

\* r.client.Get(args.Path), the status check and io.ReadAll
Get(k, resp) ==
  /\ rn.resolver.at[k] = "get"
  /\ rn' = [rn EXCEPT !.resolver.gets[rn.resolver.path[k]] = CountUp(@),
                      !.resolver.at[k] = IF resp = "ok" THEN "store" ELSE "idle",
                      !.resolver.failed = @ \/ resp # "ok",
                      !.resolver.out[k] =
                         IF resp = "ok" THEN @
                         ELSE [path |-> rn.resolver.path[k], text |-> <<>>, cached |-> FALSE]]
  /\ UNCHANGED bridgeVars

\* r.cache.Store(args.Path, text) and the return of the text
Store(k) ==
  /\ rn.resolver.at[k] = "store"
  /\ rn' = [rn EXCEPT !.resolver.cache[rn.resolver.path[k]] = Body(rn.resolver.path[k]),
                      !.resolver.at[k] = "idle",
                      !.resolver.out[k] =
                         [path |-> rn.resolver.path[k], text |-> Body(rn.resolver.path[k]),
                          cached |-> FALSE]]
  /\ UNCHANGED bridgeVars

\* SpecResolver: the load callbacks of one bundle operation, for any of the
\* URLs, two at a time.
NextResolver ==
  \/ \E k \in Loaders, u \in Urls : OnLoad(k, u)
  \/ \E k \in Loaders, resp \in Responses : Get(k, resp)
  \/ \E k \in Loaders : Store(k)

SpecResolver == Init /\ [][NextResolver]_vars

====
